---- MODULE Spec2Model ----
(***************************************************************************)
(* Model of the aliyun-spot-manager reconciliation engine:                 *)
(*   main.go            cron scheduler driving Monitor.Check               *)
(*   monitor/monitor.go Check, checkInstance, waitForRunning, canNotify,   *)
(*                      updateNotifyTime, DiscoverInstances                *)
(*   aliyun/ecs.go      StartInstance (error mapping)                      *)
(*   notify (telegram)  NotifyInstance* alert constructors                 *)
(*                                                                         *)
(* Every firing of the cron entry is a goroutine ("job") that runs Check.  *)
(* A job walks its snapshot of the registry and runs checkInstance on each *)
(* entry.  The provider (ECS API) and the alert transport are the          *)
(* environment: each call takes its result from a small set with \E.       *)
(* Time is kept as elapsed time: a cooldown entry holds the clock units    *)
(* passed since its time.Now(), which is what time.Since reads; an age     *)
(* beyond the cooldown window is not counted further.  NOTIFY_COOLDOWN is  *)
(* counted in the same units.                                              *)
(***************************************************************************)
EXTENDS Integers, Sequences, FiniteSets, TLC

\* ------------------------------------------------------------------ bounds
MaxJobs == 2          \* goroutines the scheduler may have in flight
MaxPolls == 3         \* status polls that fit before the 2-minute deadline
MaxRetry == 2         \* largest RETRY_COUNT explored
MaxInstances == 2     \* largest discovered registry
Cooldown == 1         \* NOTIFY_COOLDOWN, in clock units
MaxIdLen == 4         \* longest generated region identifier
MaxRecords == 3       \* region traffic records in one response
MaxItems == 3         \* items in one instance bill

Jobs == 1..MaxJobs
InstanceIds == {"i-1", "i-2", "i-3"}
NoTime == 0 - 1

\* ------------------------------------------------- provider result domains
Err == "error"
Statuses == {"Running", "Stopped", "Starting", "Stopping", "Pending"}
StatusResults == Statuses \cup {Err}
PollResults == {"Running", "Starting", Err}
StartResults == {"ok", "IncorrectInstanceStatus", Err}
RefreshResults == {"ok", Err}
SendResults == {"ok", Err}

\* error values carried in lastErr and returned by checkInstance
Nil == "nil"
ErrGetStatus == "failed to get status"
ErrStart == "failed to start instance"
ErrTimeout == "timeout waiting for instance to start"

VARIABLES
    proc,        \* main: "load" | "new" | "discover" | "assign" | "notify" |
                 \*   "running" | "fatal" | "panic"; "report" for a report
                 \*   computed on its own
    fleet,       \* provider side: the spot instances a discovery lists
    cfg,         \* config.Config as loaded
    instances,   \* Monitor.instances (the registry)
    lastNotify,  \* Monitor.lastNotify, instance id -> time elapsed since
    jobs,        \* per goroutine: position and locals of Check/checkInstance
    notifiedAt,  \* history: time since the last updateNotifyTime per instance
    reclaimedAt, \* history: time since the last reclaimed alert per instance
    notices,     \* history: messages DiscoverInstances handed to the notifier
    calc,        \* an operation outside the reconciliation loop (start-up,
                 \*   report, bot command): its input, progress and result
    botPolling   \* the BotHandler polling loop has been started

vars == <<proc, fleet, cfg, instances, lastNotify, jobs, notifiedAt,
          reclaimedAt, notices, calc, botPolling>>

\* --------------------------------------------------------------- registry
\* A discovered SpotInstance: id and public address ("" when none).
SpotInstance(id, ip) == [InstanceID |-> id, PublicIPAddress |-> ip]

IdAt(k) == IF k = 1 THEN "i-1" ELSE IF k = 2 THEN "i-2" ELSE "i-3"

\* The fleets the provider may hold, up to MaxInstances.
Fleets ==
    { [k \in 1..n |-> SpotInstance(IdAt(k), "")] : n \in 0..MaxInstances }

\* ------------------------------------------------------------------ config
\* The configurations explored.  HEALTH_CHECK_ENABLED is loaded but read by
\* no statement of the monitor, so it is switched on with RETRY_COUNT = 1 only.
Configs ==
    { c \in [ RetryCount : {0 - 1} \cup (0..MaxRetry),
              NotifyCooldown : {Cooldown},
              TelegramEnabled : BOOLEAN,
              HealthCheckEnabled : BOOLEAN ] :
        c.HealthCheckEnabled => c.RetryCount = 1 }

\* monitor.New: the notifier exists iff Telegram is enabled.
notifier == cfg.TelegramEnabled

\* ---------------------------------------------------------- job record
IdleJob ==
    [ pc |-> "idle",
      held |-> FALSE,          \* Check: this goroutine holds m.mu (read)
      snapshot |-> << >>,      \* Check: copy of m.instances
      idx |-> 0,               \* Check: position of the range loop
      invoked |-> << >>,       \* history: checkInstance calls per position
      logged |-> 0,            \* history: errors logged by Check (line 198)
      checkRet |-> "none",     \* Check's return value
      inst |-> SpotInstance("", ""),
      status |-> "none",       \* checkInstance: first observed status
      i |-> 0,                 \* retry loop counter
      lastErr |-> Nil,
      startRes |-> "none",     \* history: provider result of the last start
      polls |-> 0,             \* history: polls of the wait in progress or
                               \*   of the one that saw Running
      pollFailed |-> FALSE,    \* history: one of those polls failed
      waitRes |-> "none",      \* waitForRunning's return value (line 253)
      seen |-> "none",         \* history: the status on which the wait
                               \*   returned nil
      writes |-> 0,            \* history: updateNotifyTime calls of this run
      starts |-> 0,            \* history: start commands issued in this run
      startErrs |-> 0,         \* history: start commands that returned error
      sleeps |-> 0,            \* history: retry sleeps of this run
      probes |-> 0,            \* history: reachability probes of this run
      refreshed |-> "none",    \* history: result of GetInstance
      alerts |-> << >>,        \* history: alerts handed to the notifier
      sent |-> "none",         \* history: result of the reclaimed alert's
                               \*   send, kept until the next step
      ret |-> "none" ]         \* checkInstance's return value

\* The locals of checkInstance outside a call.
NoRun(j) ==
    [ j EXCEPT !.inst = SpotInstance("", ""),
               !.status = "none", !.i = 0, !.lastErr = Nil,
               !.startRes = "none", !.polls = 0, !.pollFailed = FALSE,
               !.waitRes = "none", !.seen = "none", !.writes = 0,
               !.starts = 0,
               !.startErrs = 0, !.sleeps = 0, !.probes = 0,
               !.refreshed = "none", !.alerts = << >>, !.sent = "none",
               !.ret = "none" ]

\* Check walking its snapshot from the last entry to the first
FreshRun_Reversed(j, k) ==
    [ NoRun(j) EXCEPT !.pc = "checkInstance", !.idx = k, !.invoked[k] = @ + 1,
                      !.inst = j.snapshot[Len(j.snapshot) + 1 - k] ]

\* Check calls checkInstance on entry k of its snapshot.
FreshRun(j, k) ==
    [ NoRun(j) EXCEPT !.pc = "checkInstance", !.idx = k, !.invoked[k] = @ + 1,
                      !.inst = j.snapshot[k] ]

Alert(kind, id, n, err, ip) ==
    [ kind |-> kind, id |-> id, retry |-> n, err |-> err, ip |-> ip ]

\* no report computation in progress
NoCalc == [op |-> "none"]

\* ------------------------------------------------------------------- init
Init ==
    /\ proc = "discover"
    /\ fleet \in Fleets
    /\ cfg \in Configs
    /\ instances = << >>
    /\ lastNotify = [x \in {} |-> 0]
    /\ jobs = [g \in Jobs |-> IdleJob]
    /\ notifiedAt = [x \in InstanceIds |-> NoTime]
    /\ reclaimedAt = [x \in InstanceIds |-> NoTime]
    /\ notices = << >>
    /\ calc = NoCalc
    /\ botPolling = FALSE

\* ------------------------------------------------------- code as operators
\* canNotify with the window's end counted as elapsed (>= for >)
canNotify_AtWindowEnd(instanceID) ==
    IF instanceID \notin DOMAIN lastNotify
    THEN TRUE
    ELSE lastNotify[instanceID] >= cfg.NotifyCooldown

\* monitor.go:316-326  canNotify; lastNotify[id] is time.Since(lastTime)
canNotify(instanceID) ==
    IF instanceID \notin DOMAIN lastNotify
    THEN TRUE
    ELSE lastNotify[instanceID] > cfg.NotifyCooldown

\* the cooldown timestamp not recorded
updateNotifyTime_Skip(instanceID) == lastNotify

\* monitor.go:329-333  updateNotifyTime: the map after the upsert
updateNotifyTime(instanceID) ==
    [x \in (DOMAIN lastNotify) \cup {instanceID} |->
        IF x = instanceID THEN 0 ELSE lastNotify[x]]

\* StartInstance without the IncorrectInstanceStatus exemption
StartInstance_NoExemption(res) ==
    IF res = "ok" THEN Nil ELSE ErrStart

\* ecs.go:225-235  StartInstance: the error returned for a provider result
StartInstance(res) ==
    IF res = "ok" THEN Nil
    ELSE IF res = "IncorrectInstanceStatus" THEN Nil
    ELSE ErrStart

\* the status test widened to an instance that is still stopping
IsStopped_OrStopping(status) == status \in {"Stopped", "Stopping"}

\* monitor.go:216  only a Stopped instance is handled
IsStopped(status) == status = "Stopped"

\* the retry loop running one pass too many (<= for <)
RetryCond_OffByOne(i) == i <= cfg.RetryCount

\* monitor.go:238  the retry loop's condition
RetryCond(i) == i < cfg.RetryCount

\* a wait that ends on every status but Stopped
IsRunning_NotStopped(status) == status # "Stopped"

\* monitor.go:307  waitForRunning leaves the loop on this status
IsRunning(status) == status = "Running"

\* monitor.go:299  the deadline can win the select once the first ticker
\* period has passed, i.e. after at least one poll
DeadlineReady(polls) == polls >= 1

\* notify: NotifyInstanceStartFailed formats err.Error(); a nil error is a
\* nil-interface method call, which panics
StartFailedPanics(err) == err = Nil

\* a failed status query taken for a stopped instance
AfterStatus_ErrAsStopped(r) ==
    IF r # Err /\ ~IsStopped(r) THEN [pc |-> "return", ret |-> Nil]
    ELSE [pc |-> "canNotify", ret |-> "none"]

\* monitor.go:208-218  what checkInstance does with the first status query
AfterStatus(r) ==
    IF r = Err THEN [pc |-> "return", ret |-> ErrGetStatus]
    ELSE IF ~IsStopped(r) THEN [pc |-> "return", ret |-> Nil]
    ELSE [pc |-> "canNotify", ret |-> "none"]

\* Check giving up on the first checkInstance error
AfterReturn_Abort(j) ==
    LET l == [j EXCEPT !.logged = IF j.ret # Nil THEN @ + 1 ELSE @]
    IN  IF j.ret # Nil
        THEN [NoRun(l) EXCEPT !.pc = "CheckReturn", !.checkRet = j.ret]
        ELSE IF j.idx < Len(j.snapshot)
        THEN FreshRun(l, j.idx + 1)
        ELSE [NoRun(l) EXCEPT !.pc = "CheckReturn", !.checkRet = Nil]

\* monitor.go:196-202  Check's loop after checkInstance returned: log the
\* error if any, go on with the next entry, return nil after the last
AfterReturn(j) ==
    LET l == [j EXCEPT !.logged = IF j.ret # Nil THEN @ + 1 ELSE @]
    IN  IF j.idx < Len(j.snapshot)
        THEN FreshRun(l, j.idx + 1)
        ELSE [NoRun(l) EXCEPT !.pc = "CheckReturn", !.checkRet = Nil]

\* the zero record left behind when the refresh error is not tested
RefreshedInst_Unchecked(inst, res) ==
    IF res = "ok" THEN SpotInstance(inst.InstanceID, "ip")
    ELSE SpotInstance("", "")

\* monitor.go:260-264  inst after the refresh: the record the provider
\* returns for the running instance carries its public address
RefreshedInst(inst, res) ==
    IF res = "ok" THEN SpotInstance(inst.InstanceID, "ip") ELSE inst

\* an alert that counts only when its send succeeded
Notify_IfSent(j, alert, sent) ==
    IF sent = "ok" THEN [j EXCEPT !.alerts = Append(@, alert)] ELSE j

\* monitor.go:227-231, 271-275, 282-286  an alert is handed to the notifier;
\* a send error is logged and dropped
Notify(j, alert, sent) == [j EXCEPT !.alerts = Append(@, alert)]

\* the success path without its "return nil": it falls out of the branch
\* back into the retry loop
Succeed_NoReturn(j, res, sent) ==
    LET inst == RefreshedInst(j.inst, res)
        k == [j EXCEPT !.inst = inst, !.refreshed = res,
                       !.pc = "retry", !.i = @ + 1]
    IN  IF notifier
        THEN Notify(k, Alert("started", inst.InstanceID, 0, Nil,
                             inst.PublicIPAddress), sent)
        ELSE k

\* monitor.go:260-277  after waitForRunning returned nil: refresh the
\* record, send the success alert, return nil
Succeed(j, res, sent) ==
    LET inst == RefreshedInst(j.inst, res)
        k == [j EXCEPT !.inst = inst, !.refreshed = res,
                       !.pc = "return", !.ret = Nil]
    IN  IF notifier
        THEN Notify(k, Alert("started", inst.InstanceID, 0, Nil,
                             inst.PublicIPAddress), sent)
        ELSE k

\* the read lock released by a deferred call, at Check's return only
Unlocked_Deferred(j) == j

\* monitor.go:194  m.mu.RUnlock() once the copy is made
Unlocked(j) == [j EXCEPT !.held = FALSE]

\* a sleep before every attempt, the first one too
SleepsBefore_Always(i) == TRUE

\* monitor.go:239-242  the loop sleeps RetryInterval before a later attempt
SleepsBefore(i) == i > 0

\* a deadline that ends the remediation instead of the attempt
TimedOut_Abort(j) ==
    [j EXCEPT !.pc = "return", !.ret = ErrTimeout, !.lastErr = ErrTimeout,
              !.waitRes = ErrTimeout, !.polls = 0, !.pollFailed = FALSE]

\* monitor.go:299-300, 253-257  the deadline: waitForRunning returns the
\* timeout error, checkInstance keeps it in lastErr and continues the loop
TimedOut(j) ==
    [j EXCEPT !.pc = "retry", !.lastErr = ErrTimeout, !.i = @ + 1,
              !.waitRes = ErrTimeout, !.polls = 0, !.pollFailed = FALSE]

\* the refreshed record written through the registry's pointer
RegistryAfterRefresh_WriteThrough(registry, inst) ==
    [k \in DOMAIN registry |->
        IF registry[k].InstanceID = inst.InstanceID THEN inst ELSE registry[k]]

\* monitor.go:264  "inst = updatedInst" rebinds the local variable: the
\* registry keeps its pointers and the records they point to
RegistryAfterRefresh(registry, inst) == registry

\* the reclaimed branch taken whatever the cooldown test says
AfterCooldown_Always(can) == "reclaimed"

\* monitor.go:223-225  the branch after the cooldown test
AfterCooldown(can) == IF can THEN "reclaimed" ELSE "retry"

Set(g, j) == jobs' = [jobs EXCEPT ![g] = j]

\* the start-up message sent whatever the list, also for an empty one
MonitorStarted_Unguarded(list) ==
    IF notifier
    THEN << [kind |-> "monitor_started", count |-> Len(list),
             ids |-> [k \in 1..Len(list) |-> list[k].InstanceID]] >>
    ELSE << >>

\* monitor.go:176-184 with notify NotifyMonitorStarted: the messages
\* DiscoverInstances sends for the list it found
MonitorStarted(list) ==
    IF notifier /\ Len(list) > 0
    THEN << [kind |-> "monitor_started", count |-> Len(list),
             ids |-> [k \in 1..Len(list) |-> list[k].InstanceID]] >>
    ELSE << >>

\* ---------------------------------------------------------------- actions
\* main.go:40-42 with monitor.go:161-166: the one discovery pass.  The
\* provider is asked for the spot instances; an error is fatal; with the
\* list in hand DiscoverInstances takes the registry's write lock, which
\* main holds while proc = "assign".
DiscoverInstances ==
    /\ proc = "discover"
    /\ \/ proc' = "fatal"
       \/ proc' = "assign"
    /\ UNCHANGED <<fleet, cfg, instances, lastNotify, jobs, notifiedAt, reclaimedAt, notices, calc, botPolling>>

\* monitor.go:167-168: the registry is assigned and the lock released.
AssignInstances ==
    /\ proc = "assign"
    /\ instances' = fleet
    /\ proc' = "notify"
    /\ UNCHANGED <<fleet, cfg, lastNotify, jobs, notifiedAt, reclaimedAt, notices, calc, botPolling>>

\* monitor.go:170-186 and main.go:45-56: the start-up message, then the
\* scheduler is started.
NotifyStarted ==
    /\ proc = "notify"
    /\ notices' = notices \o MonitorStarted(instances)
    /\ proc' = "running"
    /\ UNCHANGED <<fleet, cfg, instances, lastNotify, jobs, notifiedAt, reclaimedAt, calc, botPolling>>

\* One clock unit passes: every recorded time is one unit older.
Older(age) ==
    IF age = NoTime THEN NoTime
    ELSE IF age > cfg.NotifyCooldown THEN age
    ELSE age + 1

Advance ==
    /\ proc = "running"
    /\ lastNotify' = [x \in DOMAIN lastNotify |-> Older(lastNotify[x])]
    /\ notifiedAt' = [x \in InstanceIds |-> Older(notifiedAt[x])]
    /\ reclaimedAt' = [x \in InstanceIds |-> Older(reclaimedAt[x])]
    /\ UNCHANGED <<proc, fleet, cfg, instances, jobs, notices, calc, botPolling>>

FreeSlot(g) ==
    /\ jobs[g].pc = "idle"
    /\ \A h \in Jobs : h < g => jobs[h].pc # "idle"

\* main.go:45-55: cron.New() without a job wrapper runs every firing of the
\* entry in a goroutine of its own, whether or not the previous run ended.
CronTick ==
    /\ proc = "running"
    /\ \E g \in Jobs :
         /\ FreeSlot(g)
         /\ Set(g, [jobs[g] EXCEPT !.pc = "Check"])
    /\ UNCHANGED <<proc, fleet, cfg, instances, lastNotify, notifiedAt, reclaimedAt, notices, calc, botPolling>>

\* A firing that finds no Check in flight.
SeqTick ==
    /\ \A g \in Jobs : jobs[g].pc = "idle"
    /\ CronTick

\* monitor.go:191: Check takes the registry's read lock.  The only writer,
\* DiscoverInstances, has finished before the scheduler starts.
CheckLock(g) ==
    /\ proc = "running"
    /\ jobs[g].pc = "Check"
    /\ Set(g, [jobs[g] EXCEPT !.pc = "CheckLocked", !.held = TRUE])
    /\ UNCHANGED <<proc, fleet, cfg, instances, lastNotify, notifiedAt, reclaimedAt, notices, calc, botPolling>>

\* monitor.go:192-196: copy the registry, release the lock, enter the loop.
CheckBegin(g) ==
    /\ proc = "running"
    /\ jobs[g].pc = "CheckLocked"
    /\ LET j == Unlocked([jobs[g] EXCEPT
                            !.snapshot = instances,
                            !.invoked = [k \in 1..Len(instances) |-> 0]])
       IN  IF Len(instances) = 0
           THEN Set(g, [j EXCEPT !.pc = "CheckReturn", !.checkRet = Nil])
           ELSE Set(g, FreshRun(j, 1))
    /\ UNCHANGED <<proc, fleet, cfg, instances, lastNotify, notifiedAt, reclaimedAt, notices, calc, botPolling>>

\* monitor.go:208-218: the first status query.
GetStatus(g) ==
    /\ proc = "running"
    /\ jobs[g].pc = "checkInstance"
    /\ \E r \in StatusResults :
         Set(g, [jobs[g] EXCEPT !.status = r,
                                !.pc = AfterStatus(r).pc,
                                !.ret = AfterStatus(r).ret])
    /\ UNCHANGED <<proc, fleet, cfg, instances, lastNotify, notifiedAt, reclaimedAt, notices, calc, botPolling>>

\* monitor.go:223-225: the cooldown test.
CheckCooldown(g) ==
    /\ proc = "running"
    /\ jobs[g].pc = "canNotify"
    /\ Set(g, [jobs[g] EXCEPT
                  !.pc = AfterCooldown(canNotify(jobs[g].inst.InstanceID))])
    /\ UNCHANGED <<proc, fleet, cfg, instances, lastNotify, notifiedAt, reclaimedAt, notices, calc, botPolling>>

\* monitor.go:226-232: the reclaimed alert, then the cooldown timestamp.
NotifyReclaimed(g) ==
    /\ proc = "running"
    /\ jobs[g].pc = "reclaimed"
    /\ LET id == jobs[g].inst.InstanceID
           j == [jobs[g] EXCEPT !.pc = "retry", !.writes = @ + 1]
       IN  /\ IF notifier
              THEN /\ \E sent \in SendResults :
                        Set(g, Notify([j EXCEPT !.sent = sent],
                                      Alert("reclaimed", id, 0, Nil, ""), sent))
                   /\ reclaimedAt' = [reclaimedAt EXCEPT ![id] = 0]
              ELSE /\ Set(g, j)
                   /\ UNCHANGED reclaimedAt
           /\ lastNotify' = updateNotifyTime(id)
           /\ notifiedAt' = [notifiedAt EXCEPT ![id] = 0]
    /\ UNCHANGED <<proc, fleet, cfg, instances, notices, calc, botPolling>>

\* monitor.go:238-250: one pass of the retry loop up to the start command.
Attempt(g) ==
    /\ proc = "running"
    /\ jobs[g].pc = "retry"
    /\ RetryCond(jobs[g].i)
    /\ \E r \in StartResults :
         LET e == StartInstance(r)
             j == [jobs[g] EXCEPT !.sleeps = IF SleepsBefore(jobs[g].i)
                                             THEN @ + 1 ELSE @,
                                  !.sent = "none",
                                  !.starts = @ + 1,
                                  !.startRes = r,
                                  !.waitRes = "none"]
         IN  IF e # Nil
             THEN Set(g, [j EXCEPT !.lastErr = e, !.startErrs = @ + 1, !.i = @ + 1])
             ELSE Set(g, [j EXCEPT !.pc = "waitForRunning", !.polls = 0,
                                   !.pollFailed = FALSE, !.waitRes = "none"])
    /\ UNCHANGED <<proc, fleet, cfg, instances, lastNotify, notifiedAt, reclaimedAt, notices, calc, botPolling>>

\* monitor.go:301-310 and 253-277: a ticker period of waitForRunning; on
\* Running the wait returns nil and the run ends on the success path.
Poll(g) ==
    /\ proc = "running"
    /\ jobs[g].pc = "waitForRunning"
    /\ jobs[g].polls < MaxPolls
    /\ \E r \in PollResults :
         LET j == [jobs[g] EXCEPT !.polls = @ + 1,
                                  !.pollFailed = @ \/ r = Err]
         IN  IF r # Err /\ IsRunning(r)
             THEN \E res \in RefreshResults, sent \in SendResults :
                     /\ Set(g, Succeed([j EXCEPT !.waitRes = Nil, !.seen = r],
                                       res, sent))
                     /\ instances' = RegistryAfterRefresh(
                                        instances, RefreshedInst(j.inst, res))
             ELSE /\ Set(g, j)
                  /\ UNCHANGED instances
    /\ UNCHANGED <<proc, fleet, cfg, lastNotify, notifiedAt, reclaimedAt, notices, calc, botPolling>>

\* monitor.go:299-300 and 253-257: the 2-minute deadline fails the attempt.
WaitTimeout(g) ==
    /\ proc = "running"
    /\ jobs[g].pc = "waitForRunning"
    /\ DeadlineReady(jobs[g].polls)
    /\ Set(g, TimedOut(jobs[g]))
    /\ UNCHANGED <<proc, fleet, cfg, instances, lastNotify, notifiedAt, reclaimedAt, notices, calc, botPolling>>

\* monitor.go:280-288: the loop ended without success.
Exhausted(g) ==
    /\ proc = "running"
    /\ jobs[g].pc = "retry"
    /\ ~RetryCond(jobs[g].i)
    /\ LET j == [jobs[g] EXCEPT !.sent = "none"]
       IN  IF notifier
           THEN IF StartFailedPanics(j.lastErr)
                THEN /\ Set(g, [j EXCEPT !.pc = "panic"])
                     /\ proc' = "panic"
                ELSE /\ \E sent \in SendResults :
                          Set(g, Notify([j EXCEPT !.pc = "return", !.ret = j.lastErr],
                                        Alert("failed", j.inst.InstanceID,
                                              cfg.RetryCount, j.lastErr, ""), sent))
                     /\ UNCHANGED proc
           ELSE /\ Set(g, [j EXCEPT !.pc = "return", !.ret = j.lastErr])
                /\ UNCHANGED proc
    /\ UNCHANGED <<fleet, cfg, instances, lastNotify, notifiedAt, reclaimedAt, notices, calc, botPolling>>

\* monitor.go:196-202: log the error if any, go on with the next entry.
CheckNext(g) ==
    /\ proc = "running"
    /\ jobs[g].pc = "return"
    /\ Set(g, AfterReturn(jobs[g]))
    /\ UNCHANGED <<proc, fleet, cfg, instances, lastNotify, notifiedAt, reclaimedAt, notices, calc, botPolling>>

\* main.go:46-50: the cron job function returns, the goroutine ends.
JobDone(g) ==
    /\ proc = "running"
    /\ jobs[g].pc = "CheckReturn"
    /\ Set(g, IdleJob)
    /\ UNCHANGED <<proc, fleet, cfg, instances, lastNotify, notifiedAt, reclaimedAt, notices, calc, botPolling>>

Step(g) ==
    \/ CheckLock(g)
    \/ CheckBegin(g)
    \/ GetStatus(g)
    \/ CheckCooldown(g)
    \/ NotifyReclaimed(g)
    \/ Attempt(g)
    \/ Poll(g)
    \/ WaitTimeout(g)
    \/ Exhausted(g)
    \/ CheckNext(g)
    \/ JobDone(g)

\* The inputs explored with overlapping firings: one instance, one retry.
InitOverlap ==
    /\ Init
    /\ Len(fleet) <= 1
    /\ cfg.RetryCount = 1
    /\ cfg.TelegramEnabled
    /\ cfg.HealthCheckEnabled

\* The program: firings may overlap.
Next ==
    \/ DiscoverInstances
    \/ AssignInstances
    \/ NotifyStarted
    \/ Advance
    \/ CronTick
    \/ \E g \in Jobs : Step(g)

Spec == InitOverlap /\ [][Next]_vars

\* The schedules in which every Check ends before the next firing.
NextSeq ==
    \/ DiscoverInstances
    \/ AssignInstances
    \/ NotifyStarted
    \/ Advance
    \/ SeqTick
    \/ \E g \in Jobs : Step(g)

SpecSeq == Init /\ [][NextSeq]_vars

\* ---------------------------------------------------------------- start-up
\* strconv.ParseBool: the strings it accepts
ParseBoolTrue == {"1", "t", "T", "TRUE", "true", "True"}
ParseBoolFalse == {"0", "f", "F", "FALSE", "false", "False"}

\* config.go:112-119  getEnvBool
getEnvBool(value, defaultValue) ==
    IF value = "" THEN defaultValue
    ELSE IF value \in ParseBoolTrue THEN TRUE
    ELSE IF value \in ParseBoolFalse THEN FALSE
    ELSE defaultValue

\* the environments explored; RETRY_COUNT is kept as the integer that
\* getEnvInt yields
Environments ==
    [ ALIYUN_ACCESS_KEY_ID : {"", "id"},
      ALIYUN_ACCESS_KEY_SECRET : {"", "secret"},
      TELEGRAM_ENABLED : {"", "true", "false", "0", "yes"},
      TELEGRAM_BOT_TOKEN : {"", "token"},
      TELEGRAM_CHAT_ID : {"", "chat"},
      HEALTH_CHECK_ENABLED : {"", "false"},
      RETRY_COUNT : {1} ]

\* config.go:78-89  the validation errors
ErrKeyId == "ALIYUN_ACCESS_KEY_ID is required"
ErrKeySecret == "ALIYUN_ACCESS_KEY_SECRET is required"
ErrBotToken == "TELEGRAM_BOT_TOKEN is required when Telegram is enabled"
ErrChatId == "TELEGRAM_CHAT_ID is required when Telegram is enabled"

\* the *Config of a failed Load (nil), and cfg in main before Load
NoConfig ==
    [RetryCount |-> 0, NotifyCooldown |-> 0, TelegramEnabled |-> FALSE,
     HealthCheckEnabled |-> FALSE]

\* config.go:43-71  the Config built from the environment
ConfigOf(env) ==
    [RetryCount |-> env.RETRY_COUNT,
     NotifyCooldown |-> Cooldown,
     TelegramEnabled |-> getEnvBool(env.TELEGRAM_ENABLED, TRUE),
     HealthCheckEnabled |-> getEnvBool(env.HEALTH_CHECK_ENABLED, TRUE)]

\* Load without the test of the access key secret
Load_SecretOptional(env) ==
    LET c == ConfigOf(env)
    IN  IF env.ALIYUN_ACCESS_KEY_ID = ""
        THEN [cfg |-> NoConfig, err |-> ErrKeyId]
        ELSE IF c.TelegramEnabled /\ env.TELEGRAM_BOT_TOKEN = ""
        THEN [cfg |-> NoConfig, err |-> ErrBotToken]
        ELSE IF c.TelegramEnabled /\ env.TELEGRAM_CHAT_ID = ""
        THEN [cfg |-> NoConfig, err |-> ErrChatId]
        ELSE [cfg |-> c, err |-> Nil]

\* config.go:42-94  Load
Load(env) ==
    LET c == ConfigOf(env)
    IN  IF env.ALIYUN_ACCESS_KEY_ID = ""
        THEN [cfg |-> NoConfig, err |-> ErrKeyId]
        ELSE IF env.ALIYUN_ACCESS_KEY_SECRET = ""
        THEN [cfg |-> NoConfig, err |-> ErrKeySecret]
        ELSE IF c.TelegramEnabled /\ env.TELEGRAM_BOT_TOKEN = ""
        THEN [cfg |-> NoConfig, err |-> ErrBotToken]
        ELSE IF c.TelegramEnabled /\ env.TELEGRAM_CHAT_ID = ""
        THEN [cfg |-> NoConfig, err |-> ErrChatId]
        ELSE [cfg |-> c, err |-> Nil]

\* the process is started in some environment
InitStartup ==
    /\ proc = "load"
    /\ fleet \in Fleets
    /\ cfg = NoConfig
    /\ instances = << >>
    /\ lastNotify = [x \in {} |-> 0]
    /\ jobs = [g \in Jobs |-> IdleJob]
    /\ notifiedAt = [x \in InstanceIds |-> NoTime]
    /\ reclaimedAt = [x \in InstanceIds |-> NoTime]
    /\ notices = << >>
    /\ botPolling = FALSE
    /\ calc \in {[op |-> "startup", env |-> e, loadErr |-> "none",
                   created |-> FALSE] : e \in Environments}

\* main.go:21-25  config.Load; an error is fatal
LoadConfig ==
    /\ proc = "load"
    /\ LET r == Load(calc.env)
       IN  /\ calc' = [calc EXCEPT !.loadErr = r.err]
           /\ cfg' = r.cfg
           /\ proc' = IF r.err # Nil THEN "fatal" ELSE "new"
    /\ UNCHANGED <<fleet, instances, lastNotify, jobs, notifiedAt, reclaimedAt,
                   notices, botPolling>>

\* main.go:32-36 with monitor.go:34-72  monitor.New; it returns no error
NewMonitor ==
    /\ proc = "new"
    /\ calc' = [calc EXCEPT !.created = TRUE]
    /\ lastNotify' = [x \in {} |-> 0]
    /\ proc' = "discover"
    /\ UNCHANGED <<fleet, cfg, instances, jobs, notifiedAt, reclaimedAt,
                   notices, botPolling>>

\* monitor.go:75-79  StartBot.  main.go contains no call of it, so the
\* action is a step of no specification.
StartBot ==
    /\ proc = "running"
    /\ botPolling' = (botPolling \/ cfg.TelegramEnabled)
    /\ UNCHANGED <<proc, fleet, cfg, instances, lastNotify, jobs, notifiedAt,
                   reclaimedAt, notices, calc>>

\* main.go:15-56  from the start of the process to the started scheduler
NextStartup ==
    \/ LoadConfig
    \/ NewMonitor
    \/ DiscoverInstances
    \/ AssignInstances
    \/ NotifyStarted

SpecStartup == InitStartup /\ [][NextStartup]_vars

\* ------------------------------------------------- region classification
\* Region identifiers are strings, kept as sequences of characters.
\* traffic.go:83-100  ChinaMainlandRegions (the allow-list)
ChinaMainlandRegions ==
    { <<"c", "n", "-", "q", "i", "n", "g", "d", "a", "o">>,
      <<"c", "n", "-", "b", "e", "i", "j", "i", "n", "g">>,
      <<"c", "n", "-", "z", "h", "a", "n", "g", "j", "i", "a", "k", "o", "u">>,
      <<"c", "n", "-", "h", "u", "h", "e", "h", "a", "o", "t", "e">>,
      <<"c", "n", "-", "w", "u", "l", "a", "n", "c", "h", "a", "b", "u">>,
      <<"c", "n", "-", "h", "a", "n", "g", "z", "h", "o", "u">>,
      <<"c", "n", "-", "s", "h", "a", "n", "g", "h", "a", "i">>,
      <<"c", "n", "-", "n", "a", "n", "j", "i", "n", "g">>,
      <<"c", "n", "-", "f", "u", "z", "h", "o", "u">>,
      <<"c", "n", "-", "s", "h", "e", "n", "z", "h", "e", "n">>,
      <<"c", "n", "-", "h", "e", "y", "u", "a", "n">>,
      <<"c", "n", "-", "g", "u", "a", "n", "g", "z", "h", "o", "u">>,
      <<"c", "n", "-", "c", "h", "e", "n", "g", "d", "u">>,
      <<"c", "n", "-", "n", "a", "n", "j", "i", "n", "g", "-", "f", "i", "n", "a", "n", "c", "e">>,
      <<"c", "n", "-", "s", "h", "a", "n", "g", "h", "a", "i", "-", "f", "i", "n", "a", "n", "c", "e", "-", "1">>,
      <<"c", "n", "-", "s", "h", "e", "n", "z", "h", "e", "n", "-", "f", "i", "n", "a", "n", "c", "e", "-", "1">> }

\* identifiers outside the allow-list: the carved-out region, domestic
\* regions the list does not name, foreign regions, near misses
OtherRegions ==
    { <<"c", "n", "-", "h", "o", "n", "g", "k", "o", "n", "g">>,
      <<"c", "n", "-", "w", "u", "h", "a", "n", "-", "l", "r">>,
      <<"c", "n", "-", "h", "o", "n", "g", "k", "o", "n", "g", "-", "2">>,
      <<"a", "p", "-", "s", "o", "u", "t", "h", "e", "a", "s", "t", "-", "1">>,
      <<"a", "p", "-", "n", "o", "r", "t", "h", "e", "a", "s", "t", "-", "1">>,
      <<"u", "s", "-", "e", "a", "s", "t", "-", "1">>,
      <<"e", "u", "-", "c", "e", "n", "t", "r", "a", "l", "-", "1">>,
      <<"m", "e", "-", "e", "a", "s", "t", "-", "1">>,
      <<"C", "N", "-", "b", "e", "i", "j", "i", "n", "g">>,
      <<"x", "c", "n", "-", "b", "e", "i", "j", "i", "n", "g">> }

CnPrefix == <<"c", "n", "-">>
Hongkong == <<"c", "n", "-", "h", "o", "n", "g", "k", "o", "n", "g">>

\* every identifier of at most MaxIdLen characters over this alphabet
IdAlphabet == {"c", "n", "-", "x"}
ShortIds == UNION { [1..n -> IdAlphabet] : n \in 0..MaxIdLen }

RegionIds == ChinaMainlandRegions \cup OtherRegions \cup ShortIds

\* strings.HasPrefix
HasPrefix(str, prefix) ==
    /\ Len(str) >= Len(prefix)
    /\ SubSeq(str, 1, Len(prefix)) = prefix

\* the naive rule: every identifier with the cn- prefix is domestic
IsChinaMainlandRegion_PrefixOnly(regionId) ==
    IF regionId \in ChinaMainlandRegions THEN TRUE
    ELSE IF HasPrefix(regionId, CnPrefix) THEN TRUE
    ELSE FALSE

\* traffic.go:103-113  IsChinaMainlandRegion
IsChinaMainlandRegion(regionId) ==
    IF regionId \in ChinaMainlandRegions THEN TRUE
    ELSE IF HasPrefix(regionId, CnPrefix) /\ regionId # Hongkong THEN TRUE
    ELSE FALSE

\* ------------------------------------------------------- report requests
\* The reports are computed on request, outside the scheduler: the monitor
\* state plays no part and stays as constructed.
monitorVars ==
    <<proc, fleet, cfg, instances, lastNotify, jobs, notifiedAt, reclaimedAt,
      notices, botPolling>>

ReportInit ==
    /\ proc = "report"
    /\ fleet = << >>
    /\ cfg = [RetryCount |-> 1, NotifyCooldown |-> Cooldown,
              TelegramEnabled |-> TRUE, HealthCheckEnabled |-> FALSE]
    /\ instances = << >>
    /\ lastNotify = [x \in {} |-> 0]
    /\ jobs = [g \in Jobs |-> IdleJob]
    /\ notifiedAt = [x \in InstanceIds |-> NoTime]
    /\ reclaimedAt = [x \in InstanceIds |-> NoTime]
    /\ notices = << >>
    /\ botPolling = FALSE

\* a region identifier is handed to the classifier
InitRegion ==
    /\ ReportInit
    /\ calc \in {[op |-> "classify", regionId |-> r, done |-> FALSE,
                   result |-> FALSE] : r \in RegionIds}

\* traffic.go:169  the classifier is applied
Classify ==
    /\ calc.op = "classify"
    /\ ~calc.done
    /\ calc' = [calc EXCEPT !.done = TRUE,
                            !.result = IsChinaMainlandRegion(calc.regionId)]
    /\ UNCHANGED monitorVars

NextRegion == Classify

SpecRegion == InitRegion /\ [][NextRegion]_vars

\* ------------------------------------------------------ traffic report
\* traffic.go:187  bytes per GB
GiB == 1073741824

\* a float64 quotient, kept exact as numerator and denominator
Quot(n, d) == [num |-> n, den |-> d]

\* traffic.go:47-53  RegionTrafficDetail, as far as the summary reads it
TrafficRegions ==
    { <<"c", "n", "-", "b", "e", "i", "j", "i", "n", "g">>,
      Hongkong,
      <<"u", "s", "-", "e", "a", "s", "t", "-", "1">> }
TrafficValues == {0, 1, 4}
ProductLists == { << >>, << [Product |-> "eip", Traffic |-> 1] >> }
TrafficDetails ==
    [BusinessRegionId : TrafficRegions, Traffic : TrafficValues,
     ProductTrafficDetails : ProductLists]

\* traffic.go:68-74  an empty TrafficRegionSummary
EmptyRegionSummary ==
    [Traffic |-> 0, TrafficGB |-> Quot(0, GiB), Regions |-> << >>,
     RegionCount |-> 0, ProductDetails |-> [x \in {} |-> 0]]

\* traffic.go:153-163  the summary before the loop
EmptyTrafficSummary ==
    [ChinaMainland |-> EmptyRegionSummary,
     NonChinaMainland |-> EmptyRegionSummary,
     TotalTraffic |-> 0, TotalTrafficGB |-> Quot(0, GiB)]

\* traffic.go:173-175  ProductDetails[pd.Product] += pd.Traffic for a list
RECURSIVE AddProducts(_, _)
AddProducts(details, pds) ==
    IF pds = << >> THEN details
    ELSE LET pd == Head(pds)
             old == IF pd.Product \in DOMAIN details
                    THEN details[pd.Product] ELSE 0
             new == [x \in (DOMAIN details) \cup {pd.Product} |->
                        IF x = pd.Product THEN old + pd.Traffic
                        ELSE details[x]]
         IN  AddProducts(new, Tail(pds))

\* traffic.go:170-175 / 177-182  one record added to one bucket
AddToBucket(bucket, detail) ==
    [bucket EXCEPT !.Traffic = @ + detail.Traffic,
                   !.Regions = Append(@, detail.BusinessRegionId),
                   !.RegionCount = @ + 1,
                   !.ProductDetails =
                        AddProducts(@, detail.ProductTrafficDetails)]

\* the loop body with the else lost: the second bucket takes every record
AddDetail_NoElse(summary, detail) ==
    LET t == [summary EXCEPT !.TotalTraffic = @ + detail.Traffic]
        c == IF IsChinaMainlandRegion(detail.BusinessRegionId)
             THEN [t EXCEPT !.ChinaMainland = AddToBucket(@, detail)]
             ELSE t
    IN  [c EXCEPT !.NonChinaMainland = AddToBucket(@, detail)]

\* traffic.go:166-184  the loop body
AddDetail(summary, detail) ==
    LET t == [summary EXCEPT !.TotalTraffic = @ + detail.Traffic]
    IN  IF IsChinaMainlandRegion(detail.BusinessRegionId)
        THEN [t EXCEPT !.ChinaMainland = AddToBucket(@, detail)]
        ELSE [t EXCEPT !.NonChinaMainland = AddToBucket(@, detail)]

\* traffic.go:186-189  the GB figures
ConvertToGB(summary) ==
    [summary EXCEPT
        !.TotalTrafficGB = Quot(summary.TotalTraffic, GiB),
        !.ChinaMainland.TrafficGB = Quot(summary.ChinaMainland.Traffic, GiB),
        !.NonChinaMainland.TrafficGB =
            Quot(summary.NonChinaMainland.Traffic, GiB)]

\* a traffic report is requested
InitTraffic ==
    /\ ReportInit
    /\ calc = [op |-> "traffic", details |-> << >>,
               summary |-> EmptyTrafficSummary, done |-> FALSE]

\* traffic.go:166-184  the loop takes the next record of the response
TrafficRecord ==
    /\ calc.op = "traffic"
    /\ ~calc.done
    /\ Len(calc.details) < MaxRecords
    /\ \E detail \in TrafficDetails :
         calc' = [calc EXCEPT !.details = Append(@, detail),
                              !.summary = AddDetail(@, detail)]
    /\ UNCHANGED monitorVars

\* traffic.go:186-196  the response is exhausted
TrafficDone ==
    /\ calc.op = "traffic"
    /\ ~calc.done
    /\ calc' = [calc EXCEPT !.summary = ConvertToGB(@), !.done = TRUE]
    /\ UNCHANGED monitorVars

NextTraffic == TrafficRecord \/ TrafficDone

SpecTraffic == InitTraffic /\ [][NextTraffic]_vars

\* ------------------------------------------------------ billing report
\* ServicePeriodUnit values of the bill API (traffic.go:414, 519-523); the
\* API reports them in Chinese, written here in ASCII
UnitSeconds == "second"
UnitDays == "day"
UnitHours == "hour"

\* traffic.go:487, 493  the two fixed texts of EstimateMethod, in ASCII
MethodHourly == "hourly cost sum x 720 hours"
MethodDaily == "elapsed days x 30 days"

RECURSIVE GCD(_, _)
GCD(a, b) == IF b = 0 THEN a ELSE GCD(b, a % b)

\* a float64 value, kept exact as a fraction in lowest terms (den > 0)
Rat(n, d) ==
    LET a == IF n < 0 THEN -n ELSE n
        g == GCD(a, d)
    IN  [num |-> n \div g, den |-> d \div g]

RatAdd(a, b) == Rat(a.num * b.den + b.num * a.den, a.den * b.den)
RatTimes(a, k) == Rat(a.num * k, a.den)
\* a / b for b > 0
RatDiv(a, b) == Rat(a.num * b.den, a.den * b.num)

\* the decimal digits fmt.Sscanf accepts for %f
DigitVal ==
    ("0" :> 0) @@ ("1" :> 1) @@ ("2" :> 2) @@ ("3" :> 3) @@ ("4" :> 4) @@
    ("5" :> 5) @@ ("6" :> 6) @@ ("7" :> 7) @@ ("8" :> 8) @@ ("9" :> 9)

\* the longest prefix of decimal digits of a string
RECURSIVE DigitPrefix(_)
DigitPrefix(str) ==
    IF str = << >> \/ Head(str) \notin DOMAIN DigitVal THEN << >>
    ELSE << Head(str) >> \o DigitPrefix(Tail(str))

RECURSIVE DigitsValue(_, _)
DigitsValue(digits, acc) ==
    IF digits = << >> THEN acc
    ELSE DigitsValue(Tail(digits), acc * 10 + DigitVal[Head(digits)])

\* traffic.go:510-529  Sscanf("%f") then the unit conversion
parseServicePeriod(servicePeriod, unit) ==
    LET digits == DigitPrefix(servicePeriod)
        value == DigitsValue(digits, 0)
    IN  IF digits = << >> THEN [err |-> TRUE, value |-> 0]
        ELSE IF unit = UnitDays THEN [err |-> FALSE, value |-> value * 24 * 3600]
        ELSE IF unit = UnitHours THEN [err |-> FALSE, value |-> value * 3600]
        ELSE [err |-> FALSE, value |-> value]

\* traffic.go:348-351  the instances the report is asked for
RequestedIds == {"i-1", "i-2"}
\* instance ids the bill can name; the last one is not asked for
BilledIds == RequestedIds \cup {"i-9"}

\* ServicePeriod and ServicePeriodUnit as the bill pairs them
ServicePeriods ==
    { << <<"3", "6", "0", "0">>, UnitSeconds >>,
      << <<"7", "2", "0", "0">>, UnitSeconds >>,
      << <<"2">>, UnitDays >>,
      << << >>, UnitSeconds >> }
PretaxAmounts == {-10, 10}
ElapsedDayValues == {1, 10}

\* the fields of a bill item that QueryBilling computes with
RawItems ==
    { [InstanceID |-> id, ServicePeriod |-> sp[1], ServicePeriodUnit |-> sp[2],
       PretaxAmount |-> amt] :
        id \in BilledIds, sp \in ServicePeriods, amt \in PretaxAmounts }

\* every billed instance taken as asked for
Requested_All(item) == TRUE

\* traffic.go:383-386  the item names an instance of the request
Requested(item) == item.InstanceID \in RequestedIds

\* a Go map read: the zero value for a missing key
Lookup(m, key) == IF key \in DOMAIN m THEN m[key] ELSE 0

\* a Go map write
Store(m, key, value) ==
    [x \in (DOMAIN m) \cup {key} |-> IF x = key THEN value ELSE m[x]]

\* the running seconds of an instance are added up over its items
LargerSeconds_Sum(current, seconds) == current + seconds

\* traffic.go:417-419  keep the larger value
LargerSeconds(current, seconds) ==
    IF seconds > current THEN seconds ELSE current

\* traffic.go:414-421  instanceRunningSeconds after one item
RunningSecondsAfter(running, item) ==
    IF item.ServicePeriod # << >> /\ item.ServicePeriodUnit = UnitSeconds
    THEN LET parsed == parseServicePeriod(item.ServicePeriod,
                                          item.ServicePeriodUnit)
         IN  IF ~parsed.err
             THEN LET current == Lookup(running, item.InstanceID)
                      larger == LargerSeconds(current, parsed.value)
                  IN  IF larger # current
                      THEN Store(running, item.InstanceID, larger)
                      ELSE running
             ELSE running
    ELSE running

\* traffic.go:392-403  a new InstanceBillingSummary
NewInstanceBilling(id) ==
    [InstanceID |-> id, Items |-> << >>, TotalAmount |-> 0,
     RunningHours |-> Rat(0, 1), HourlyCost |-> Rat(0, 1)]

\* traffic.go:392-403, 438-439  instanceBillings after one item
BillingsAfter(billings, item) ==
    LET id == item.InstanceID
        summary == IF id \in DOMAIN billings THEN billings[id]
                   ELSE NewInstanceBilling(id)
    IN  Store(billings, id,
              [summary EXCEPT !.Items = Append(@, item.PretaxAmount),
                              !.TotalAmount = @ + item.PretaxAmount])

\* the hourly cost computed for every total, positive or not
WithHourlyCost_Unguarded(summary, running) ==
    LET id == summary.InstanceID
    IN  IF id \in DOMAIN running /\ running[id] > 0
        THEN LET hours == Rat(running[id], 3600)
             IN  [summary EXCEPT
                    !.RunningHours = hours,
                    !.HourlyCost = RatDiv(Rat(summary.TotalAmount, 1), hours)]
        ELSE summary

\* traffic.go:463-470  running hours and hourly cost of one instance
WithHourlyCost(summary, running) ==
    LET id == summary.InstanceID
    IN  IF id \in DOMAIN running /\ running[id] > 0
        THEN LET hours == Rat(running[id], 3600)
             IN  [summary EXCEPT
                    !.RunningHours = hours,
                    !.HourlyCost = IF summary.TotalAmount > 0
                                   THEN RatDiv(Rat(summary.TotalAmount, 1), hours)
                                   ELSE @]
        ELSE summary

RECURSIVE SumOver(_, _)
\* the sum of f[x] for x in S
SumOver(f, S) ==
    IF S = {} THEN 0
    ELSE LET x == CHOOSE y \in S : TRUE
         IN  f[x] + SumOver(f, S \ {x})

RECURSIVE RatSumOver(_, _)
\* the sum of the fractions f[x] for x in S
RatSumOver(f, S) ==
    IF S = {} THEN Rat(0, 1)
    ELSE LET x == CHOOSE y \in S : TRUE
         IN  RatAdd(f[x], RatSumOver(f, S \ {x}))

\* the fallback tier taken for every total other than zero
Estimate_Nonzero(totalHourlyCost, totalAmount, elapsedDays) ==
    IF totalHourlyCost.num > 0
    THEN [MonthlyEstimate |-> RatTimes(RatTimes(totalHourlyCost, 30), 24),
          EstimateMethod |-> [text |-> MethodHourly, rate |-> totalHourlyCost]]
    ELSE IF totalAmount # 0 /\ elapsedDays > 0
    THEN LET dailyRate == Rat(totalAmount, elapsedDays)
         IN  [MonthlyEstimate |-> RatTimes(dailyRate, 30),
              EstimateMethod |-> [text |-> MethodDaily, rate |-> dailyRate]]
    ELSE [MonthlyEstimate |-> Rat(0, 1),
          EstimateMethod |-> [text |-> "", rate |-> Rat(0, 1)]]

\* traffic.go:484-495  MonthlyEstimate and EstimateMethod
Estimate(totalHourlyCost, totalAmount, elapsedDays) ==
    IF totalHourlyCost.num > 0
    THEN [MonthlyEstimate |-> RatTimes(RatTimes(totalHourlyCost, 30), 24),
          EstimateMethod |-> [text |-> MethodHourly, rate |-> totalHourlyCost]]
    ELSE IF totalAmount > 0 /\ elapsedDays > 0
    THEN LET dailyRate == Rat(totalAmount, elapsedDays)
         IN  [MonthlyEstimate |-> RatTimes(dailyRate, 30),
              EstimateMethod |-> [text |-> MethodDaily, rate |-> dailyRate]]
    ELSE [MonthlyEstimate |-> Rat(0, 1),
          EstimateMethod |-> [text |-> "", rate |-> Rat(0, 1)]]

\* traffic.go:442-495  the BillingSummary built after the loop
BuildSummary(billings, running, elapsedDays) ==
    LET insts == [id \in DOMAIN billings |->
                    WithHourlyCost(billings[id], running)]
        total == SumOver([id \in DOMAIN insts |-> insts[id].TotalAmount],
                         DOMAIN insts)
        paying == {id \in DOMAIN insts : insts[id].HourlyCost.num > 0}
        totalHourlyCost ==
            RatSumOver([id \in DOMAIN insts |-> insts[id].HourlyCost], paying)
        est == Estimate(totalHourlyCost, total, elapsedDays)
    IN  [ElapsedDays |-> elapsedDays,
         TotalRunningHours |-> Rat(SumOver(running, DOMAIN running), 3600),
         Instances |-> insts,
         TotalAmount |-> total,
         MonthlyEstimate |-> est.MonthlyEstimate,
         EstimateMethod |-> est.EstimateMethod]

\* a billing report is requested: nothing read yet
InitBilling ==
    /\ ReportInit
    /\ calc = [op |-> "billing", items |-> << >>,
               instanceBillings |-> [x \in {} |-> 0],
               instanceRunningSeconds |-> [x \in {} |-> 0],
               done |-> FALSE,
               result |-> BuildSummary([x \in {} |-> 0], [x \in {} |-> 0], 1)]

\* traffic.go:381-440  the loop takes the next item of the bill
BillingItemRead ==
    /\ calc.op = "billing"
    /\ ~calc.done
    /\ Len(calc.items) < MaxItems
    /\ \E item \in RawItems :
         calc' = IF ~Requested(item)
                 THEN [calc EXCEPT !.items = Append(@, item)]
                 ELSE [calc EXCEPT
                         !.items = Append(@, item),
                         !.instanceRunningSeconds = RunningSecondsAfter(@, item),
                         !.instanceBillings = BillingsAfter(@, item)]
    /\ UNCHANGED monitorVars

\* traffic.go:442-500  the bill is exhausted; now.Day() is the elapsed days
BillingDone ==
    /\ calc.op = "billing"
    /\ ~calc.done
    /\ \E elapsedDays \in ElapsedDayValues :
         calc' = [calc EXCEPT
                    !.done = TRUE,
                    !.result = BuildSummary(calc.instanceBillings,
                                            calc.instanceRunningSeconds,
                                            elapsedDays)]
    /\ UNCHANGED monitorVars

NextBilling == BillingItemRead \/ BillingDone

SpecBilling == InitBilling /\ [][NextBilling]_vars

\* ----------------------------------------------------------- bot commands
\* handleBotCommand is the callback the monitor registers with the bot
\* handler (monitor.go:68).  A command is handled from beginning to end
\* between two reconciliation passes.
Commands ==
    {"billing", "cost", "fee", "traffic", "flow", "bandwidth", "status",
     "help", "", "start", "Billing", "/billing", "helpp"}

\* the report functions of the monitor
Handlers ==
    {"SendBillingReport", "SendTrafficReport", "sendStatusReport",
     "sendHelpMessage"}

\* monitor.go:101, 338, 383  errors of the report functions
ErrNoNotifier == "telegram notifier not initialized"
ErrNoBilling == "billing client not initialized"
ErrNoTraffic == "traffic client not initialized"
ErrQueryBilling == "failed to query billing"
ErrQueryTraffic == "failed to query traffic"
ErrSendBilling == "failed to send billing notification"
ErrSendTraffic == "failed to send traffic notification"
ErrSend == "failed to send message"

\* the dispatcher answering an unknown command with the help message
Dispatch_UnknownHelp(command) ==
    IF command \in {"billing", "cost", "fee"} THEN "SendBillingReport"
    ELSE IF command \in {"traffic", "flow", "bandwidth"} THEN "SendTrafficReport"
    ELSE IF command = "status" THEN "sendStatusReport"
    ELSE "sendHelpMessage"

\* monitor.go:83-95  the switch of handleBotCommand
Dispatch(command) ==
    IF command \in {"billing", "cost", "fee"} THEN "SendBillingReport"
    ELSE IF command \in {"traffic", "flow", "bandwidth"} THEN "SendTrafficReport"
    ELSE IF command = "status" THEN "sendStatusReport"
    ELSE IF command = "help" THEN "sendHelpMessage"
    ELSE "none"

\* monitor.go:100-102, 141-156, 337-343, 382-388  where a report function
\* stands after its nil tests, or what it returns from them
Entry(handler, billingClient, trafficClient) ==
    IF handler = "none" THEN [pc |-> "return", ret |-> Nil]
    ELSE IF handler = "SendBillingReport"
    THEN IF ~billingClient THEN [pc |-> "return", ret |-> ErrNoBilling]
         ELSE IF ~notifier THEN [pc |-> "return", ret |-> ErrNoNotifier]
         ELSE [pc |-> "billing.lock", ret |-> "none"]
    ELSE IF handler = "SendTrafficReport"
    THEN IF ~trafficClient THEN [pc |-> "return", ret |-> ErrNoTraffic]
         ELSE IF ~notifier THEN [pc |-> "return", ret |-> ErrNoNotifier]
         ELSE [pc |-> "traffic.query", ret |-> "none"]
    ELSE IF ~notifier THEN [pc |-> "return", ret |-> ErrNoNotifier]
    ELSE IF handler = "sendStatusReport"
    THEN [pc |-> "status.lock", ret |-> "none"]
    ELSE [pc |-> "send", ret |-> "none"]

\* monitor.go:371-373, 399-401, 110, 136, 156  the error a report function
\* returns for the result of its send
SendError(handler, sent) ==
    IF sent = "ok" THEN Nil
    ELSE IF handler = "SendBillingReport" THEN ErrSendBilling
    ELSE IF handler = "SendTrafficReport" THEN ErrSendTraffic
    ELSE ErrSend

\* monitor.go:82  handleBotCommand is called with a command; the billing
\* and traffic clients are those monitor.New managed to create
BotCommand ==
    /\ proc = "running"
    /\ cfg.TelegramEnabled
    /\ calc = NoCalc
    /\ \A g \in Jobs : jobs[g].pc = "idle"
    /\ \E command \in Commands, billingClient \in BOOLEAN, trafficClient \in BOOLEAN :
         LET handler == Dispatch(command)
             e == Entry(handler, billingClient, trafficClient)
         IN  /\ (handler = "SendBillingReport" \/ billingClient)
             /\ (handler = "SendTrafficReport" \/ trafficClient)
             /\ calc' = [op |-> "command", command |-> command,
                         handler |-> handler, pc |-> e.pc, held |-> FALSE,
                         copied |-> 0, k |-> 0, unknown |-> 0,
                         sends |-> << >>, ret |-> e.ret]
    /\ UNCHANGED monitorVars

\* monitor.go:104, 346  the report takes the registry's read lock
ReportLock ==
    /\ calc.op = "command"
    /\ calc.pc \in {"billing.lock", "status.lock"}
    /\ calc' = [calc EXCEPT
                  !.pc = IF calc.pc = "billing.lock" THEN "billing.locked"
                         ELSE "status.locked",
                  !.held = TRUE]
    /\ UNCHANGED monitorVars

\* monitor.go:347-360  SendBillingReport copies the instance infos, releases
\* the lock, and returns nil if there are none
BillingCopy ==
    /\ calc.op = "command"
    /\ calc.pc = "billing.locked"
    /\ LET c == Unlocked([calc EXCEPT !.copied = Len(instances)])
       IN  calc' = IF Len(instances) = 0
                   THEN [c EXCEPT !.pc = "return", !.ret = Nil]
                   ELSE [c EXCEPT !.pc = "billing.query"]
    /\ UNCHANGED monitorVars

\* monitor.go:105-111  sendStatusReport copies the registry and releases
\* the lock; without instances it goes straight to its message
StatusCopy ==
    /\ calc.op = "command"
    /\ calc.pc = "status.locked"
    /\ LET c == Unlocked([calc EXCEPT !.copied = Len(instances)])
       IN  calc' = IF Len(instances) = 0
                   THEN [c EXCEPT !.pc = "send"]
                   ELSE [c EXCEPT !.pc = "status.poll", !.k = 1]
    /\ UNCHANGED monitorVars

\* monitor.go:117-134  one pass of the status loop: a failed query shows
\* the instance as Unknown
StatusPoll ==
    /\ calc.op = "command"
    /\ calc.pc = "status.poll"
    /\ \E r \in StatusResults :
         LET c == [calc EXCEPT !.unknown = IF r = Err THEN @ + 1 ELSE @]
         IN  calc' = IF calc.k < calc.copied
                     THEN [c EXCEPT !.k = @ + 1]
                     ELSE [c EXCEPT !.pc = "send"]
    /\ UNCHANGED monitorVars

\* monitor.go:365-368, 393-396  the billing or traffic query
ReportQuery ==
    /\ calc.op = "command"
    /\ calc.pc \in {"billing.query", "traffic.query"}
    /\ \E res \in {"ok", Err} :
         calc' = IF res = "ok" THEN [calc EXCEPT !.pc = "send"]
                 ELSE [calc EXCEPT
                         !.pc = "return",
                         !.ret = IF calc.pc = "billing.query"
                                 THEN ErrQueryBilling ELSE ErrQueryTraffic]
    /\ UNCHANGED monitorVars

\* monitor.go:110, 136, 156, 371, 399  the report's message is handed to the
\* alert transport and the function returns
ReportSend ==
    /\ calc.op = "command"
    /\ calc.pc = "send"
    /\ \E sent \in SendResults :
         calc' = [calc EXCEPT !.pc = "return",
                              !.sends = Append(@, calc.handler),
                              !.ret = SendError(calc.handler, sent)]
    /\ UNCHANGED monitorVars

\* handleBotCommand has returned
CommandReturn ==
    /\ calc.op = "command"
    /\ calc.pc = "return"
    /\ calc' = NoCalc
    /\ UNCHANGED monitorVars

CommandStep ==
    \/ BotCommand
    \/ ReportLock
    \/ BillingCopy
    \/ StatusCopy
    \/ StatusPoll
    \/ ReportQuery
    \/ ReportSend
    \/ CommandReturn

\* a firing of the scheduler between two commands
CommandTick ==
    /\ calc = NoCalc
    /\ SeqTick

\* The monitor with its reconciliation passes and its commands, one at a
\* time.
NextCommand ==
    \/ DiscoverInstances
    \/ AssignInstances
    \/ NotifyStarted
    \/ Advance
    \/ CommandTick
    \/ \E g \in Jobs : Step(g)
    \/ CommandStep

SpecCommand == Init /\ [][NextCommand]_vars

\* ------------------------------------------------------- the bill's pages
\* traffic.go:365-381: the cycle's items are asked for in one request of
\* PageSize items, page 1, and the loop runs over that response.
PageSize == 300
MaxOverflow == 1      \* items of a cycle beyond one page

\* the number of items the billing cycle holds
CycleSizes == {1, PageSize} \cup {PageSize + e : e \in 1..MaxOverflow}

\* the items of the cycle: all for one requested instance, 1 each
CycleItem ==
    [InstanceID |-> "i-1", ServicePeriod |-> << >>,
     ServicePeriodUnit |-> UnitSeconds, PretaxAmount |-> 1]

\* traffic.go:371-374  what the provider returns for PageSize 300, PageNum 1
FirstPage(cycle) == IF cycle > PageSize THEN PageSize ELSE cycle

InitPage ==
    /\ ReportInit
    /\ calc \in {[op |-> "page", cycle |-> n, responded |-> FALSE,
                  page |-> 0, k |-> 0,
                  instanceBillings |-> [x \in {} |-> 0],
                  done |-> FALSE, ret |-> "none"] : n \in CycleSizes}

\* traffic.go:365-377  the one QueryInstanceBill request
QueryInstanceBill ==
    /\ calc.op = "page"
    /\ ~calc.responded
    /\ ~calc.done
    /\ \E ok \in BOOLEAN :
         calc' = IF ok
                 THEN [calc EXCEPT !.responded = TRUE,
                                   !.page = FirstPage(calc.cycle)]
                 ELSE [calc EXCEPT !.done = TRUE, !.ret = Err]
    /\ UNCHANGED monitorVars

\* traffic.go:381-440  the loop takes the next item of the response
PageItemRead ==
    /\ calc.op = "page"
    /\ calc.responded
    /\ calc.k < calc.page
    /\ calc' = [calc EXCEPT
                  !.k = @ + 1,
                  !.instanceBillings =
                      IF Requested(CycleItem) THEN BillingsAfter(@, CycleItem)
                      ELSE @]
    /\ UNCHANGED monitorVars

\* traffic.go:442-500  the response is exhausted: the summary is returned
PageDone ==
    /\ calc.op = "page"
    /\ calc.responded
    /\ calc.k = calc.page
    /\ ~calc.done
    /\ calc' = [calc EXCEPT !.done = TRUE, !.ret = Nil]
    /\ UNCHANGED monitorVars

NextPage == QueryInstanceBill \/ PageItemRead \/ PageDone

SpecPage == InitPage /\ [][NextPage]_vars

\* ------------------------------------------------------------ discovery
\* ecs.go: the discovery pass region by region, with the per-region client
\* cache of ECSClient, and the goroutines that use the cache afterwards.
MaxDiscoveries == 2   \* DiscoverInstances calls made in a row

DefaultRegion == "cn-hangzhou"
DiscoveryRegions == {"cn-hangzhou", "us-west-1"}

\* ecs.go:115-123  a listed spot instance carries its region
SpotInstanceIn(region, id) ==
    [InstanceID |-> id, PublicIPAddress |-> "", RegionID |-> region]

\* what DescribeRegions may answer
RegionLists ==
    { <<"cn-hangzhou", "us-west-1">>, <<"us-west-1", "cn-hangzhou">>,
      <<"cn-hangzhou">> }

\* what the provider holds: per region no spot instance or one
Worlds ==
    { [r \in DiscoveryRegions |->
          IF r \in S
          THEN << SpotInstanceIn(r, IF r = DefaultRegion THEN "i-1" ELSE "i-2") >>
          ELSE << >>] : S \in SUBSET DiscoveryRegions }

\* the goroutines besides main: two Checks in flight, one status report
Routines == {"check1", "check2", "status"}
Threads == {"main"} \cup Routines

ErrDiscover == "failed to discover instances"

IdleThread == [pc |-> "idle", gc |-> "none", region |-> "", client |-> "none"]

\* a client that is created but never cached
Cached_None(clients, region) == clients

\* ecs.go:50  c.clients[regionID] = client
Cached(clients, region) == clients \cup {region}

\* a failed region keeps the instances tracked for it so far
Skipped_Retain(all, registry, region) ==
    all \o SelectSeq(registry, LAMBDA inst : inst.RegionID = region)

\* ecs.go:248-251  a region whose listing failed is logged and skipped
Skipped(all, registry, region) == all

\* the discovered instances added to those already tracked
Assigned_Merge(registry, all) ==
    registry \o SelectSeq(all, LAMBDA inst :
                    \A n \in DOMAIN registry : registry[n] # inst)

\* monitor.go:167  m.instances = instances
Assigned(registry, all) == all

discoveryFrame ==
    <<fleet, cfg, lastNotify, jobs, notifiedAt, reclaimedAt, notices,
      botPolling>>

\* limit: the DiscoverInstances calls made before the scheduler is started
\* (main.go makes one)
InitDiscovery(limit) ==
    /\ proc = "discover"
    /\ fleet = << >>
    /\ cfg = [RetryCount |-> 1, NotifyCooldown |-> Cooldown,
              TelegramEnabled |-> TRUE, HealthCheckEnabled |-> FALSE]
    /\ instances = << >>
    /\ lastNotify = [x \in {} |-> 0]
    /\ jobs = [g \in Jobs |-> IdleJob]
    /\ notifiedAt = [x \in InstanceIds |-> NoTime]
    /\ reclaimedAt = [x \in InstanceIds |-> NoTime]
    /\ notices = << >>
    /\ botPolling = FALSE
    /\ calc = [ op |-> "discovery",
                limit |-> limit,
                clients |-> {},            \* ECSClient.clients, its keys
                th |-> [t \in Threads |-> IdleThread],
                world |-> [r \in DiscoveryRegions |-> << >>],
                regions |-> << >>,         \* GetAllRegions' answer
                k |-> 0,                   \* position of the region loop
                all |-> << >>,             \* allInstances
                failed |-> {},             \* history: regions skipped
                before |-> << >>,          \* history: registry at the call
                ret |-> "none",            \* DiscoverInstances' return value
                prevRet |-> "none",        \* history: the call before
                prevList |-> << >>,        \* history: its discovered list
                calls |-> 0 ]

\* getClient is entered for a region
Enter(t, pc, region) ==
    [calc.th[t] EXCEPT !.pc = pc, !.gc = "lookup", !.region = region,
                       !.client = "none"]

\* ecs.go:40-42  getClient reads the cache
GetClientLookup(t) ==
    /\ calc.op = "discovery"
    /\ calc.th[t].gc = "lookup"
    /\ calc' = [calc EXCEPT !.th[t] =
                  IF @.region \in calc.clients
                  THEN [@ EXCEPT !.gc = "none", !.client = "ok"]
                  ELSE [@ EXCEPT !.gc = "create"]]
    /\ UNCHANGED <<proc, instances>>
    /\ UNCHANGED discoveryFrame

\* ecs.go:44-47  the client is created, or its creation fails
GetClientCreate(t) ==
    /\ calc.op = "discovery"
    /\ calc.th[t].gc = "create"
    /\ \E ok \in BOOLEAN :
         calc' = [calc EXCEPT !.th[t] =
                    IF ok THEN [@ EXCEPT !.gc = "insert"]
                    ELSE [@ EXCEPT !.gc = "none", !.client = Err]]
    /\ UNCHANGED <<proc, instances>>
    /\ UNCHANGED discoveryFrame

\* ecs.go:50-51  the client is stored in the cache and returned
GetClientInsert(t) ==
    /\ calc.op = "discovery"
    /\ calc.th[t].gc = "insert"
    /\ calc' = [calc EXCEPT
                  !.clients = Cached(@, calc.th[t].region),
                  !.th[t] = [@ EXCEPT !.gc = "none", !.client = "ok"]]
    /\ UNCHANGED <<proc, instances>>
    /\ UNCHANGED discoveryFrame

\* monitor.go:160-161, ecs.go:239-240, 55-59  DiscoverInstances is called:
\* GetAllRegions asks for the default region's client
DiscoverCall ==
    /\ calc.op = "discovery"
    /\ proc = "discover"
    /\ calc.th["main"].pc = "idle"
    /\ calc.calls < calc.limit
    /\ \E w \in Worlds :
         calc' = [calc EXCEPT
                    !.th["main"] = Enter("main", "GetAllRegions", DefaultRegion),
                    !.world = w, !.regions = << >>, !.k = 0,
                    !.failed = {}, !.before = instances,
                    !.ret = "none", !.prevRet = calc.ret,
                    !.prevList = IF calc.ret = Nil THEN calc.all
                                 ELSE calc.prevList,
                    !.all = << >>]
    /\ UNCHANGED <<proc, instances>>
    /\ UNCHANGED discoveryFrame

\* ecs.go:56-75, 240-243, monitor.go:161-163  the regions are listed; an
\* error here ends the discovery with an error
GetAllRegions ==
    /\ calc.op = "discovery"
    /\ calc.th["main"].pc = "GetAllRegions"
    /\ calc.th["main"].gc = "none"
    /\ IF calc.th["main"].client = Err
       THEN calc' = [calc EXCEPT !.th["main"] = IdleThread,
                                 !.ret = ErrDiscover, !.calls = @ + 1]
       ELSE \E answer \in RegionLists \cup {<<Err>>} :
              IF answer = <<Err>>
              THEN calc' = [calc EXCEPT !.th["main"] = IdleThread,
                                        !.ret = ErrDiscover, !.calls = @ + 1]
              ELSE calc' = [calc EXCEPT
                              !.regions = answer, !.k = 1,
                              !.th["main"] =
                                 Enter("main", "GetSpotInstances", answer[1])]
    /\ UNCHANGED <<proc, instances>>
    /\ UNCHANGED discoveryFrame

\* ecs.go:246-253, 79-83, 97-100  one region of the loop: its instances are
\* appended, or the region is skipped when its client or its listing fails
GetSpotInstances ==
    /\ calc.op = "discovery"
    /\ calc.th["main"].pc = "GetSpotInstances"
    /\ calc.th["main"].gc = "none"
    /\ \E listed \in BOOLEAN :
         LET region == calc.regions[calc.k]
             ok == listed /\ calc.th["main"].client = "ok"
             all == IF ok THEN calc.all \o calc.world[region]
                    ELSE Skipped(calc.all, instances, region)
             failed == IF ok THEN calc.failed ELSE calc.failed \cup {region}
         IN  calc' = [calc EXCEPT
                        !.all = all, !.failed = failed,
                        !.k = @ + 1,
                        !.th["main"] =
                           IF calc.k < Len(calc.regions)
                           THEN Enter("main", "GetSpotInstances",
                                      calc.regions[calc.k + 1])
                           ELSE [IdleThread EXCEPT !.pc = "Lock"]]
    /\ UNCHANGED <<proc, instances>>
    /\ UNCHANGED discoveryFrame

\* monitor.go:166-168, 187  the registry is assigned under the write lock and
\* DiscoverInstances returns nil
AssignDiscovered ==
    /\ calc.op = "discovery"
    /\ calc.th["main"].pc = "Lock"
    /\ instances' = Assigned(instances, calc.all)
    /\ calc' = [calc EXCEPT !.th["main"] = IdleThread, !.ret = Nil,
                            !.calls = @ + 1]
    /\ UNCHANGED proc
    /\ UNCHANGED discoveryFrame

\* main.go:40-56  after the discovery main stops on its error or starts the
\* scheduler
StartScheduler ==
    /\ calc.op = "discovery"
    /\ proc = "discover"
    /\ calc.th["main"].pc = "idle"
    /\ calc.calls = calc.limit
    /\ calc.limit = 1
    /\ proc' = IF calc.ret = Nil THEN "running" ELSE "fatal"
    /\ UNCHANGED <<instances, calc>>
    /\ UNCHANGED discoveryFrame

\* monitor.go:117-118, 208  a Check or the status report asks the provider
\* for the status of a tracked instance
RoutineCall(t) ==
    /\ calc.op = "discovery"
    /\ proc = "running"
    /\ t \in Routines
    /\ calc.th[t].pc = "idle"
    /\ \E n \in DOMAIN instances :
         calc' = [calc EXCEPT !.th[t] =
                    Enter(t, "GetInstanceStatus", instances[n].RegionID)]
    /\ UNCHANGED <<proc, instances>>
    /\ UNCHANGED discoveryFrame

\* ecs.go:145-165  the status call returns
RoutineReturn(t) ==
    /\ calc.op = "discovery"
    /\ t \in Routines
    /\ calc.th[t].pc = "GetInstanceStatus"
    /\ calc.th[t].gc = "none"
    /\ calc' = [calc EXCEPT !.th[t] = IdleThread]
    /\ UNCHANGED <<proc, instances>>
    /\ UNCHANGED discoveryFrame

GetClient == \E t \in Threads :
    GetClientLookup(t) \/ GetClientCreate(t) \/ GetClientInsert(t)

\* DiscoverInstances called MaxDiscoveries times in a row
NextDiscover ==
    \/ DiscoverCall
    \/ GetClient
    \/ GetAllRegions
    \/ GetSpotInstances
    \/ AssignDiscovered

SpecDiscover == InitDiscovery(MaxDiscoveries) /\ [][NextDiscover]_vars

\* the program: one discovery, then the scheduler's goroutines
NextClients ==
    \/ DiscoverCall
    \/ GetClient
    \/ GetAllRegions
    \/ GetSpotInstances
    \/ AssignDiscovered
    \/ StartScheduler
    \/ \E t \in Routines : RoutineCall(t) \/ RoutineReturn(t)

SpecClients == InitDiscovery(1) /\ [][NextClients]_vars

\* Scheduling: every provider call returns and the Go scheduler runs every
\* runnable goroutine, so a Check that can take a step eventually takes one;
\* in waitForRunning the deadline is reached after finitely many polls.
Fairness == \A g \in Jobs : WF_vars(Step(g))

SpecSeqFair == SpecSeq /\ Fairness

\* ================================================================ claims
\* a checkInstance call that has not returned yet
InCheckInstance(g) ==
    jobs[g].pc \in {"checkInstance", "canNotify", "reclaimed", "retry",
                    "waitForRunning"}

\* a checkInstance call that is over: returned, or died in a panic
Ended(g) == jobs[g].pc \in {"return", "panic"}

AlertsOf(g, kind) == SelectSeq(jobs[g].alerts, LAMBDA a : a.kind = kind)

Max(a, b) == IF a > b THEN a ELSE b

\* C1: no two checkInstance runs for the same instance are in progress at
\* the same time, whatever the schedule of scheduler firings.
C1_NoOverlap ==
    \A g, h \in Jobs :
        (g # h /\ InCheckInstance(g) /\ InCheckInstance(h))
            => jobs[g].inst.InstanceID # jobs[h].inst.InstanceID

\* C2: canNotify is true for an instance that was never recorded, false up
\* to and including NotifyCooldown after the last updateNotifyTime and true
\* afterwards; with firings that do not overlap, a reclaimed alert for an
\* instance is emitted only when none was emitted before or the previous
\* one is more than NotifyCooldown old.
C2_CooldownState ==
    \A id \in InstanceIds :
        canNotify(id) <=> (notifiedAt[id] = NoTime
                           \/ notifiedAt[id] > cfg.NotifyCooldown)

C2_AlertStep ==
    \A g \in Jobs :
        (jobs[g].pc = "reclaimed" /\ jobs'[g].pc # "reclaimed"
         /\ Len(AlertsOf(g, "reclaimed"))' > Len(AlertsOf(g, "reclaimed")))
            => LET id == jobs[g].inst.InstanceID
               IN  \/ reclaimedAt[id] = NoTime
                   \/ reclaimedAt[id] > cfg.NotifyCooldown

C2_Cooldown == [] C2_CooldownState /\ [][C2_AlertStep]_vars

\* C2 witness: a Stopped instance, a notifier, and the alert suppressed
\* because the previous one is still inside the window.
C2_Witness ==
    \E g \in Jobs :
        /\ jobs[g].pc = "retry"
        /\ notifier
        /\ jobs[g].alerts = << >>
        /\ reclaimedAt[jobs[g].inst.InstanceID] # NoTime
        /\ reclaimedAt[jobs[g].inst.InstanceID] <= cfg.NotifyCooldown
        /\ reclaimedAt[jobs[g].inst.InstanceID] > 0

\* C3 as stated: Stopped and every start command in error: exactly
\* RetryCount start commands, exactly one failure alert with RetryCount and
\* the last start error, no success alert, the last error returned.
C3_Original ==
    \A g \in Jobs :
        (Ended(g) /\ jobs[g].status = "Stopped"
         /\ jobs[g].startErrs = jobs[g].starts)
            => /\ jobs[g].pc = "return"
               /\ jobs[g].starts = cfg.RetryCount
               /\ AlertsOf(g, "failed") =
                      << Alert("failed", jobs[g].inst.InstanceID,
                               cfg.RetryCount, ErrStart, "") >>
               /\ AlertsOf(g, "started") = << >>
               /\ jobs[g].ret = ErrStart

\* C3 amended: Stopped and every start command in error: max(RetryCount, 0)
\* start commands, no wait, no success alert; for RetryCount >= 1 the run
\* returns the last start error after exactly one failure alert (RetryCount,
\* that error) if a notifier is configured and no alert otherwise; for
\* RetryCount <= 0 it returns nil without alert when there is no notifier and
\* panics while building the failure alert when there is one.
C3_Exhaustion ==
    \A g \in Jobs :
        (Ended(g) /\ jobs[g].status = "Stopped"
         /\ jobs[g].startErrs = jobs[g].starts)
            => /\ jobs[g].starts = Max(cfg.RetryCount, 0)
               /\ jobs[g].waitRes = "none"
               /\ jobs[g].polls = 0
               /\ AlertsOf(g, "started") = << >>
               /\ IF cfg.RetryCount >= 1
                  THEN /\ jobs[g].pc = "return"
                       /\ jobs[g].ret = ErrStart
                       /\ AlertsOf(g, "failed") =
                            IF notifier
                            THEN << Alert("failed", jobs[g].inst.InstanceID,
                                          cfg.RetryCount, ErrStart, "") >>
                            ELSE << >>
                  ELSE /\ AlertsOf(g, "failed") = << >>
                       /\ IF notifier
                          THEN jobs[g].pc = "panic"
                          ELSE jobs[g].pc = "return" /\ jobs[g].ret = Nil

\* C3 witness: two start commands, both in error, and the failure alert.
C3_Witness ==
    \E g \in Jobs :
        /\ jobs[g].pc = "return"
        /\ jobs[g].status = "Stopped"
        /\ jobs[g].starts = 2
        /\ jobs[g].startErrs = 2
        /\ Len(AlertsOf(g, "failed")) = 1

\* the first attempt (no attempt has failed before): start accepted, three
\* polls without a failed status query, the third of which returned Running
\* (the first two returned Starting)
FirstAttemptSSR(g) ==
    /\ jobs[g].status = "Stopped"
    /\ jobs[g].lastErr = Nil
    /\ jobs[g].startRes = "ok"
    /\ jobs[g].polls = 3
    /\ ~jobs[g].pollFailed
    /\ jobs[g].waitRes = Nil

\* C4 as stated: health checking disabled, Stopped, first start accepted,
\* polls Starting, Starting, Running: one start command, exactly one success
\* alert, no failure alert, no error returned.
C4_Original ==
    \A g \in Jobs :
        (~cfg.HealthCheckEnabled /\ FirstAttemptSSR(g))
            => /\ jobs[g].pc = "return"
               /\ jobs[g].starts = 1
               /\ AlertsOf(g, "failed") = << >>
               /\ Len(AlertsOf(g, "started")) = 1
               /\ jobs[g].ret = Nil

\* C4 amended: as C4, the one success alert being emitted when a notifier
\* is configured, and no alert at all for the start when Telegram is
\* disabled.
C4_StartedOnce ==
    \A g \in Jobs :
        (~cfg.HealthCheckEnabled /\ FirstAttemptSSR(g))
            => /\ jobs[g].pc = "return"
               /\ jobs[g].starts = 1
               /\ AlertsOf(g, "failed") = << >>
               /\ Len(AlertsOf(g, "started")) = (IF notifier THEN 1 ELSE 0)
               /\ jobs[g].ret = Nil

\* C4 witness: the run of the claim has returned, with its success alert.
C4_Witness ==
    \E g \in Jobs :
        /\ ~cfg.HealthCheckEnabled
        /\ FirstAttemptSSR(g)
        /\ jobs[g].pc = "return"
        /\ Len(AlertsOf(g, "started")) = 1

C6_ProbeBeforeSuccess ==
    \A g \in Jobs :
        (cfg.HealthCheckEnabled
         /\ jobs[g].inst.PublicIPAddress # ""
         /\ AlertsOf(g, "started") # << >>)
            => jobs[g].probes >= 1

\* C7: remediation never panics the process.
C7_NeverPanics == proc # "panic"

\* C8: a failed first status query ends the run at once: no start command,
\* no alert, no retry counted, the error returned, the cooldown map not
\* written.
C8_StatusErrorAborts ==
    \A g \in Jobs :
        jobs[g].status = Err
            => /\ jobs[g].pc = "return"
               /\ jobs[g].ret = ErrGetStatus
               /\ jobs[g].starts = 0
               /\ jobs[g].i = 0
               /\ jobs[g].alerts = << >>
               /\ jobs[g].writes = 0

\* C8 witness: a run that returned the status error.
C8_Witness ==
    \E g \in Jobs :
        /\ jobs[g].pc = "return"
        /\ jobs[g].status = Err
        /\ jobs[g].ret = ErrGetStatus

C10_OnlyStoppedActs ==
    \A g \in Jobs :
        jobs[g].status \in Statuses \ {"Stopped"}
            => /\ jobs[g].pc = "return"
               /\ jobs[g].ret = Nil
               /\ jobs[g].starts = 0
               /\ jobs[g].alerts = << >>
               /\ jobs[g].writes = 0

\* C10 witness: a run that saw the instance Stopping and returned.
C10_Witness ==
    \E g \in Jobs :
        /\ jobs[g].pc = "return"
        /\ jobs[g].status = "Stopping"

\* the error a run returns, from the provider's responses alone: the first
\* status, whether a wait saw Running, and the result of the last start
RetFor(j) ==
    IF j.status = Err THEN ErrGetStatus
    ELSE IF j.status # "Stopped" THEN Nil
    ELSE IF j.waitRes = Nil THEN Nil
    ELSE IF j.starts = 0 THEN Nil
    ELSE IF j.waitRes = ErrTimeout THEN ErrTimeout
    ELSE ErrStart

\* the number of start commands of an ended run, from the provider's
\* responses alone: one per failed attempt, plus the one that succeeded
StartsFor(j) ==
    IF j.status # "Stopped" THEN 0
    ELSE IF j.waitRes = Nil THEN j.i + 1
    ELSE Max(cfg.RetryCount, 0)

\* C11: alerting is best-effort: whether or not a notifier is configured and
\* whichever alert sends fail, a run that saw given provider responses ends
\* by returning, with the provider calls (status, start, refresh) and the
\* returned error that those responses alone determine.
C11_BestEffort ==
    \A g \in Jobs :
        Ended(g)
            => /\ jobs[g].pc = "return"
               /\ jobs[g].ret = RetFor(jobs[g])
               /\ jobs[g].starts = StartsFor(jobs[g])
               /\ (jobs[g].refreshed # "none") <=> (jobs[g].waitRes = Nil)

\* C12: success and failure alerts are not gated by the cooldown: with a
\* notifier, a run that saw Stopped and ended in success has emitted its
\* success alert, and one that ended in retry exhaustion its failure alert,
\* whether or not the cooldown allowed the reclaimed alert.
C12_TerminalAlertUngated ==
    \A g \in Jobs :
        (notifier /\ Ended(g) /\ jobs[g].status = "Stopped")
            => IF jobs[g].waitRes = Nil
               THEN Len(AlertsOf(g, "started")) = 1
               ELSE Len(AlertsOf(g, "failed")) = 1

\* C13: at most one notification about an instance is sent within any
\* window of NOTIFY_COOLDOWN.  Stated on the notifications of one run with
\* firings that do not overlap: when a run that opened with the reclaimed
\* alert has sent a further notification about its instance, the reclaimed
\* alert is at least NOTIFY_COOLDOWN old.
C13_OnePerWindow ==
    \A g \in Jobs :
        (Len(jobs[g].alerts) >= 2 /\ jobs[g].alerts[1].kind = "reclaimed")
            => reclaimedAt[jobs[g].inst.InstanceID] >= cfg.NotifyCooldown

\* C14 as stated: DiscoverInstances puts no message on the alert transport.
C14_Original == notices = << >>

\* C14 amended: DiscoverInstances emits no reclaimed, success or failure
\* alert; what it sends is exactly one monitor-started message, carrying the
\* number of discovered instances, when a notifier is configured and the
\* discovered list is not empty, and nothing otherwise (nor when it fails).
C14_DiscoveryNotice ==
    /\ proc \in {"discover", "fatal", "assign", "notify"} => notices = << >>
    /\ proc \in {"running", "panic"} =>
          IF cfg.TelegramEnabled /\ instances # << >>
          THEN /\ Len(notices) = 1
               /\ notices[1].kind = "monitor_started"
               /\ notices[1].count = Len(instances)
          ELSE notices = << >>
    /\ \A k \in DOMAIN notices :
          notices[k].kind \notin {"reclaimed", "started", "failed"}

\* C14 witness: discovery found instances and sent its start-up message.
C14_Witness ==
    /\ proc = "running"
    /\ Len(instances) = 2
    /\ Len(notices) = 1

\* C15: every tick terminates: provided each provider call returns, every
\* checkInstance invocation eventually returns and every Check that was
\* started eventually returns.
C15_Terminates ==
    \A g \in Jobs :
        /\ (jobs[g].pc = "checkInstance") ~> (jobs[g].pc = "return")
        /\ (jobs[g].pc = "Check") ~> (jobs[g].pc = "CheckReturn")

\* C16: within one tick the instances are remediated one after the other in
\* registry order: while the run for position k is in progress or has just
\* ended, every earlier position has had its run, no later position has had
\* any, and the provider calls and alerts of the run are for the instance at
\* position k.
C16_RegistryOrder ==
    \A g \in Jobs :
        (InCheckInstance(g) \/ Ended(g))
            => LET j == jobs[g]
                   id == j.snapshot[j.idx].InstanceID
               IN  /\ j.inst.InstanceID = id
                   /\ \A n \in DOMAIN j.alerts : j.alerts[n].id = id
                   /\ \A k \in 1..Len(j.snapshot) :
                        /\ k < j.idx => j.invoked[k] = 1
                        /\ k > j.idx => j.invoked[k] = 0

\* C16 witness: the run for the second registry entry has emitted an alert
\* after the run for the first entry returned.
C16_Witness ==
    \E g \in Jobs :
        /\ InCheckInstance(g)
        /\ jobs[g].idx = 2
        /\ jobs[g].alerts # << >>
        /\ jobs[g].starts >= 1

\* the identifier starts with the three characters c, n, -
StartsWithCn(r) == Len(r) >= 3 /\ r[1] = "c" /\ r[2] = "n" /\ r[3] = "-"

\* C18: IsChinaMainlandRegion is false for cn-hongkong, true for every
\* other identifier that starts with cn- (in the allow-list or not), and
\* false for every identifier that neither starts with cn- nor is in the
\* allow-list.
C18_Classification ==
    (calc.op = "classify" /\ calc.done)
        => LET r == calc.regionId
           IN  /\ r = Hongkong => calc.result = FALSE
               /\ (StartsWithCn(r) /\ r # Hongkong) => calc.result = TRUE
               /\ (~StartsWithCn(r) /\ r \notin ChinaMainlandRegions)
                     => calc.result = FALSE

\* C18 witness: cn-hongkong has been classified, as not China Mainland.
C18_Witness ==
    /\ calc.op = "classify"
    /\ calc.regionId = Hongkong
    /\ calc.done
    /\ calc.result = FALSE

RECURSIVE SumTraffic(_)
SumTraffic(details) ==
    IF details = << >> THEN 0
    ELSE Head(details).Traffic + SumTraffic(Tail(details))

\* how often region r occurs in a list of region identifiers
Occurrences(regions, r) ==
    Cardinality({k \in DOMAIN regions : regions[k] = r})

\* C17: traffic classification is a total partition: each record read so
\* far is in exactly one of the two buckets, the traffic of the two buckets
\* adds up to TotalTraffic (the sum over the records), and the two region
\* counts add up to the number of records.
C17_TotalPartition ==
    calc.op = "traffic"
        => LET sm == calc.summary
               cn == sm.ChinaMainland
               non == sm.NonChinaMainland
           IN  /\ cn.Traffic + non.Traffic = sm.TotalTraffic
               /\ sm.TotalTraffic = SumTraffic(calc.details)
               /\ cn.RegionCount + non.RegionCount = Len(calc.details)
               /\ cn.RegionCount = Len(cn.Regions)
               /\ non.RegionCount = Len(non.Regions)
               /\ \A r \in TrafficRegions :
                    /\ Occurrences(cn.Regions, r) + Occurrences(non.Regions, r)
                         = Cardinality({k \in DOMAIN calc.details :
                                          calc.details[k].BusinessRegionId = r})
                    /\ Occurrences(cn.Regions, r) = 0
                         \/ Occurrences(non.Regions, r) = 0

\* C17 witness: a finished summary of three records with both buckets in
\* use.
C17_Witness ==
    /\ calc.op = "traffic"
    /\ calc.done
    /\ Len(calc.details) = 3
    /\ calc.summary.ChinaMainland.RegionCount = 2
    /\ calc.summary.NonChinaMainland.RegionCount = 1
    /\ calc.summary.TotalTraffic = 9

\* the items of the bill read so far that name instance id
ItemsOf(id) ==
    {k \in DOMAIN calc.items : calc.items[k].InstanceID = id}

\* the service-period values of the seconds-unit items of instance id
SecondsValues(id) ==
    {parseServicePeriod(calc.items[k].ServicePeriod, UnitSeconds).value :
        k \in {n \in ItemsOf(id) :
                 /\ calc.items[n].ServicePeriodUnit = UnitSeconds
                 /\ ~parseServicePeriod(calc.items[n].ServicePeriod,
                                        UnitSeconds).err}}

\* the largest member of a set of naturals, 0 for the empty set
MaxOf(S) == IF S = {} THEN 0 ELSE CHOOSE m \in S : \A n \in S : n <= m

\* C19: in a finished billing summary the reported instances are the
\* requested instances with at least one item, and the RunningHours of each
\* is the maximum service-period value among its seconds-unit items divided
\* by 3600, not their sum; items of other units do not contribute.
C19_RunningHoursIsMax ==
    (calc.op = "billing" /\ calc.done)
        => /\ DOMAIN calc.result.Instances
                = {id \in RequestedIds : ItemsOf(id) # {}}
           /\ \A id \in DOMAIN calc.result.Instances :
                calc.result.Instances[id].RunningHours
                    = Rat(MaxOf(SecondsValues(id)), 3600)

\* C19 witness: items of 3600 s, 3600 s and 7200 s for one instance give
\* 2.0 running hours.
C19_Witness ==
    /\ calc.op = "billing"
    /\ calc.done
    /\ Len(calc.items) = 3
    /\ \A k \in 1..3 : /\ calc.items[k].InstanceID = "i-1"
                       /\ calc.items[k].ServicePeriodUnit = UnitSeconds
    /\ calc.items[1].ServicePeriod = <<"3", "6", "0", "0">>
    /\ calc.items[2].ServicePeriod = <<"3", "6", "0", "0">>
    /\ calc.items[3].ServicePeriod = <<"7", "2", "0", "0">>
    /\ calc.result.Instances["i-1"].RunningHours = Rat(2, 1)

\* the hourly costs of the reported instances
HourlyCosts ==
    [id \in DOMAIN calc.result.Instances |->
        calc.result.Instances[id].HourlyCost]

\* the three cases of the monthly estimate, the second taken when
\* fallback holds
EstimateCases(fallback) ==
    LET r == calc.result
        sum == RatSumOver(HourlyCosts, DOMAIN HourlyCosts)
    IN  IF \E id \in DOMAIN HourlyCosts : HourlyCosts[id].num > 0
        THEN /\ r.MonthlyEstimate = RatTimes(sum, 720)
             /\ r.EstimateMethod.text = MethodHourly
             /\ r.EstimateMethod.rate = sum
        ELSE IF fallback
        THEN /\ r.MonthlyEstimate
                    = RatTimes(Rat(r.TotalAmount, r.ElapsedDays), 30)
             /\ r.EstimateMethod.text = MethodDaily
             /\ r.EstimateMethod.rate = Rat(r.TotalAmount, r.ElapsedDays)
        ELSE /\ r.MonthlyEstimate = Rat(0, 1)
             /\ r.EstimateMethod.text = ""

\* C20 as stated: with no positive hourly cost, every nonzero total amount
\* takes the elapsed-days tier.
C20_Original ==
    (calc.op = "billing" /\ calc.done)
        => EstimateCases(calc.result.TotalAmount # 0)

\* C20: if some instance has a positive hourly cost the estimate is the sum
\* of all hourly costs times 720 with the hourly description; otherwise, if
\* the total amount is positive, it is totalAmount / elapsedDays x 30 with
\* the elapsed-days description; otherwise it is zero with an empty
\* description.
C20_EstimateTiers ==
    (calc.op = "billing" /\ calc.done)
        => EstimateCases(calc.result.TotalAmount > 0)

\* C20 witness: no hourly cost, total amount 30 after 10 days: estimate 90
\* by the elapsed-days tier.
C20_Witness ==
    /\ calc.op = "billing"
    /\ calc.done
    /\ \A id \in DOMAIN HourlyCosts : HourlyCosts[id].num = 0
    /\ calc.result.TotalAmount = 30
    /\ calc.result.ElapsedDays = 10
    /\ calc.result.MonthlyEstimate = Rat(90, 1)
    /\ calc.result.EstimateMethod.text = MethodDaily

\* C24: after an accepted start command the status is polled until a poll
\* returns Running or the deadline elapses; a failed status query does not
\* end the wait; the deadline fails only the current attempt: it counts as
\* one retry, the loop goes on with a new start command if an attempt is
\* left, and the timeout error is returned only after the last attempt.
C24_WaitForRunning ==
    \A g \in Jobs :
        LET j == jobs[g]
        IN  /\ j.pc = "waitForRunning"
                 => /\ StartInstance(j.startRes) = Nil
                    /\ j.waitRes = "none"
                    /\ j.polls <= MaxPolls
                    /\ j.starts = j.i + 1
            /\ j.pollFailed
                 => \/ j.pc = "waitForRunning"
                    \/ Ended(g) /\ j.waitRes = Nil
            /\ j.waitRes = Nil
                 => /\ j.pc = "return"
                    /\ j.polls >= 1
                    /\ j.ret = Nil
            /\ j.waitRes = ErrTimeout
                 => /\ j.lastErr = ErrTimeout
                    /\ j.i >= 1
                    /\ j.starts = j.i
                    /\ \/ j.pc = "retry"
                       \/ /\ j.pc = "return"
                          /\ ~RetryCond(j.i)
                          /\ j.ret = ErrTimeout

\* C24 witness: the first attempt ran into the deadline, the second was
\* started and its wait ended on Running after a failed status query.
C24_Witness ==
    \E g \in Jobs :
        /\ jobs[g].pc = "return"
        /\ jobs[g].lastErr = ErrTimeout
        /\ jobs[g].starts = 2
        /\ jobs[g].pollFailed
        /\ jobs[g].waitRes = Nil

\* C25 as stated: a remediation that is over has issued at most RetryCount
\* start commands, and if it made an attempt its retry sleeps are the
\* attempts minus one.
C25_Original ==
    \A g \in Jobs :
        (Ended(g) /\ jobs[g].status = "Stopped")
            => /\ jobs[g].starts <= cfg.RetryCount
               /\ jobs[g].starts >= 1 => jobs[g].sleeps = jobs[g].starts - 1

\* C25 amended: in one remediation at most max(RetryCount, 0) start commands
\* are issued, for any provider behaviour; there is no sleep before the
\* first attempt and one sleep before each later attempt, so the retry
\* sleeps are the attempts minus one (none when no attempt is made).
C25_BoundedRetry ==
    \A g \in Jobs :
        /\ jobs[g].starts <= Max(cfg.RetryCount, 0)
        /\ jobs[g].sleeps = Max(jobs[g].starts - 1, 0)

\* C25 witness: a remediation that used both of its two attempts, with one
\* sleep between them.
C25_Witness ==
    \E g \in Jobs :
        /\ cfg.RetryCount = 2
        /\ jobs[g].starts = 2
        /\ jobs[g].sleeps = 1
        /\ Ended(g)

\* C26: a run that observed Stopped with canNotify true emits the reclaimed
\* alert (if a notifier is configured) before its first start command and
\* records the cooldown timestamp whatever happens next: whether the send
\* failed, whether there is a notifier, and however the start attempts end.
C26_RecordedRegardless ==
    \A g \in Jobs :
        LET j == jobs[g]
            id == j.inst.InstanceID
        IN  /\ j.pc = "reclaimed"
                 => /\ j.status = "Stopped"
                    /\ canNotify(id)
                    /\ j.starts = 0
                    /\ j.writes = 0
                    /\ j.alerts = << >>
            /\ j.sent # "none" => (notifier /\ j.starts = 0 /\ j.writes = 1)
            /\ j.writes >= 1
                 => /\ j.writes = 1
                    /\ j.status = "Stopped"
                    /\ id \in DOMAIN lastNotify
                    /\ lastNotify[id] = notifiedAt[id]
                    /\ IF notifier
                       THEN /\ j.alerts # << >>
                            /\ j.alerts[1] = Alert("reclaimed", id, 0, Nil, "")
                       ELSE j.alerts = << >>

\* C26 witness: the send of the reclaimed alert failed and the timestamp is
\* recorded all the same, before any start command.
C26_Witness ==
    \E g \in Jobs :
        /\ jobs[g].sent = Err
        /\ jobs[g].starts = 0
        /\ jobs[g].inst.InstanceID \in DOMAIN lastNotify
        /\ lastNotify[jobs[g].inst.InstanceID] = 0

\* a step of the program seen from the cooldown entry of instance id: the
\* entry stays; it is created or made newer only by a run that observed
\* Stopped and passed the cooldown test; otherwise it only ages with the
\* clock
C28_Step ==
    \A id \in InstanceIds :
        LET had == id \in DOMAIN lastNotify
            has == id \in DOMAIN lastNotify'
        IN  /\ had => has
            /\ (has /\ (~had \/ lastNotify'[id] < lastNotify[id]))
                 => /\ lastNotify'[id] = 0
                    /\ \E g \in Jobs :
                         /\ jobs[g].pc = "reclaimed"
                         /\ jobs'[g].pc # "reclaimed"
                         /\ jobs[g].inst.InstanceID = id
                         /\ jobs[g].status = "Stopped"
                         /\ canNotify(id)
            /\ (had /\ lastNotify'[id] > lastNotify[id])
                 => /\ jobs' = jobs
                    /\ lastNotify'[id] = lastNotify[id] + 1

\* C28: cooldown entries are created or updated only when a reclaimed alert
\* passes the cooldown test (Stopped observed, canNotify true) and are never
\* removed: an entry that exists exists in every later state, its timestamp
\* never decreases, and no other step writes the map.
C28_CooldownEntries == [][C28_Step]_vars

\* C28 witness: two entries, the older one past its window and kept, the
\* other one just written.
C28_Witness ==
    /\ DOMAIN lastNotify = {"i-1", "i-2"}
    /\ lastNotify["i-1"] > cfg.NotifyCooldown
    /\ lastNotify["i-2"] = 0

\* what C29 says of a run whose post-start refresh failed, with the number
\* of success alerts it must have emitted
RefreshFailureTolerated(g, successAlerts) ==
    LET j == jobs[g]
        stale == j.snapshot[j.idx]
    IN  /\ j.pc = "return"
        /\ j.ret = Nil
        /\ j.waitRes = Nil
        /\ j.inst = stale
        /\ j.starts = j.i + 1
        /\ AlertsOf(g, "failed") = << >>
        /\ Len(AlertsOf(g, "started")) = successAlerts
        /\ \A n \in DOMAIN j.alerts :
              j.alerts[n].kind = "started"
                 => j.alerts[n] = Alert("started", stale.InstanceID, 0, Nil,
                                        stale.PublicIPAddress)

\* C29 as stated: a failed refresh does not fail the attempt: the run ends
\* in success with exactly one success alert built from the stale record,
\* no further start command and no error.
C29_Original ==
    \A g \in Jobs :
        jobs[g].refreshed = Err => RefreshFailureTolerated(g, 1)

\* C29 amended: as C29, the one success alert being emitted when a notifier
\* is configured and none when Telegram is disabled.
C29_RefreshFailure ==
    \A g \in Jobs :
        jobs[g].refreshed = Err
            => RefreshFailureTolerated(g, IF notifier THEN 1 ELSE 0)

\* C29 witness: the refresh failed and the success alert went out.
C29_Witness ==
    \E g \in Jobs :
        /\ jobs[g].refreshed = Err
        /\ jobs[g].pc = "return"
        /\ Len(AlertsOf(g, "started")) = 1

\* config.Load must fail in this environment
MustFail(env) ==
    \/ env.ALIYUN_ACCESS_KEY_ID = ""
    \/ env.ALIYUN_ACCESS_KEY_SECRET = ""
    \/ /\ getEnvBool(env.TELEGRAM_ENABLED, TRUE)
       /\ env.TELEGRAM_BOT_TOKEN = "" \/ env.TELEGRAM_CHAT_ID = ""

\* C23: Load returns an error exactly when an Aliyun credential is empty or
\* Telegram is enabled with an empty bot token or chat id; then main exits
\* before the monitor is created, discovery runs or the scheduler starts;
\* with Telegram disabled, empty Telegram values are accepted.
C23_ConfigErrorsFatal ==
    (calc.op = "startup" /\ proc # "load")
        => /\ (calc.loadErr # Nil) <=> MustFail(calc.env)
           /\ calc.loadErr # Nil
                => /\ proc = "fatal"
                   /\ ~calc.created
                   /\ instances = << >>
                   /\ notices = << >>
                   /\ \A g \in Jobs : jobs[g] = IdleJob
           /\ calc.loadErr = Nil
                => cfg.TelegramEnabled = getEnvBool(calc.env.TELEGRAM_ENABLED, TRUE)

\* C23 witness: TELEGRAM_ENABLED is not set, so Telegram is enabled, the
\* chat id is empty, and main has exited on the error of Load.
C23_Witness ==
    /\ calc.op = "startup"
    /\ proc = "fatal"
    /\ calc.env.TELEGRAM_ENABLED = ""
    /\ calc.env.TELEGRAM_BOT_TOKEN # ""
    /\ calc.loadErr = ErrChatId

\* C22: once the program has started with Telegram enabled, bot command
\* polling is active: StartBot has been called.
C22_BotPollingStarted ==
    (proc = "running" /\ cfg.TelegramEnabled) => botPolling

\* the report function that C21 names for a command
ReportFor(command) ==
    CASE command \in {"billing", "cost", "fee"} -> "SendBillingReport"
      [] command \in {"traffic", "flow", "bandwidth"} -> "SendTrafficReport"
      [] command = "status" -> "sendStatusReport"
      [] command = "help" -> "sendHelpMessage"
      [] OTHER -> "none"

\* C21: billing, cost and fee invoke the billing report; traffic, flow and
\* bandwidth the traffic report; status the status report; help the help
\* message; every other command sends nothing on the alert transport and
\* returns no error.
C21_Dispatch ==
    calc.op = "command"
        => /\ calc.handler = ReportFor(calc.command)
           /\ Len(calc.sends) <= 1
           /\ \A n \in DOMAIN calc.sends : calc.sends[n] = ReportFor(calc.command)
           /\ ReportFor(calc.command) = "none"
                => /\ calc.pc = "return"
                   /\ calc.sends = << >>
                   /\ calc.ret = Nil

\* C21 witness: the alias fee has produced the billing report.
C21_Witness ==
    /\ calc.op = "command"
    /\ calc.command = "fee"
    /\ calc.pc = "return"
    /\ calc.sends = << "SendBillingReport" >>
    /\ calc.ret = Nil

\* C27: the registry lock is never held during a network call: Check and
\* the status and billing reports hold the read lock only while copying,
\* DiscoverInstances holds the write lock only for the assignment (after
\* the provider call, before the start-up message), and every provider or
\* alert-transport call is made without it.
C27_NoCallUnderLock ==
    /\ \A g \in Jobs : jobs[g].held => jobs[g].pc = "CheckLocked"
    /\ calc.op = "command"
          => (calc.held => calc.pc \in {"billing.locked", "status.locked"})
    /\ proc = "assign" => (instances = << >> /\ notices = << >>)
    /\ proc = "notify" => instances = fleet

\* C27 witness: the billing report is about to query the bill for the two
\* instances it copied, the lock released.
C27_Witness ==
    /\ calc.op = "command"
    /\ calc.pc = "billing.query"
    /\ calc.copied = 2
    /\ ~calc.held

\* C30: the registry is read-shared: neither Check and checkInstance (the
\* refresh rebinds a local variable only) nor a report changes the registry
\* or a field of a tracked instance; only DiscoverInstances assigns it.
C30_RegistryReadShared ==
    /\ proc \in {"discover", "assign", "fatal"} => instances = << >>
    /\ proc \in {"notify", "running", "panic"} => instances = fleet
    /\ \A g \in Jobs :
          (InCheckInstance(g) \/ Ended(g)) => jobs[g].snapshot = instances

\* C30 witness: a run refreshed its local record, which now carries the
\* public address, while the registry entry is as discovered.
C30_Witness ==
    \E g \in Jobs :
        /\ jobs[g].pc = "return"
        /\ jobs[g].refreshed = "ok"
        /\ jobs[g].inst.PublicIPAddress = "ip"
        /\ instances[jobs[g].idx].PublicIPAddress = ""

\* C36: checkInstance returns no error only if the first status was not
\* Stopped or a status poll saw Running after a start command of this run;
\* never for an instance observed Stopped with no Running observed, also
\* when RetryCount is 0.
C36_NilOnlyIfRecovered ==
    \A g \in Jobs :
        (jobs[g].pc = "return" /\ jobs[g].ret = Nil)
            => \/ jobs[g].status \in Statuses \ {"Stopped"}
               \/ /\ jobs[g].status = "Stopped"
                  /\ jobs[g].starts >= 1
                  /\ jobs[g].seen = "Running"

\* a terminal alert: the success or the failure alert
Terminal(a) == a.kind \in {"started", "failed"}

\* C37: with a notifier and RetryCount >= 1, a run that observed Stopped
\* emits exactly one of the success and the failure alert, never both and
\* never neither, and nothing after it; before its end it has emitted none.
C37_OneTerminalAlert ==
    \A g \in Jobs :
        LET j == jobs[g]
        IN  (notifier /\ cfg.RetryCount >= 1 /\ j.status = "Stopped")
              => /\ InCheckInstance(g)
                      => SelectSeq(j.alerts, Terminal) = << >>
                 /\ Ended(g)
                      => /\ j.pc = "return"
                         /\ Len(SelectSeq(j.alerts, Terminal)) = 1
                         /\ Terminal(j.alerts[Len(j.alerts)])
                         /\ Len(AlertsOf(g, "started")) = 1 <=> j.ret = Nil
                         /\ Len(AlertsOf(g, "failed")) = 1 <=> j.ret # Nil

\* C37 witness: a run whose failure alert could not be sent follows, for
\* the same configuration, the reclaimed alert: one terminal alert, last.
C37_Witness ==
    \E g \in Jobs :
        /\ jobs[g].pc = "return"
        /\ jobs[g].status = "Stopped"
        /\ Len(jobs[g].alerts) = 2
        /\ jobs[g].alerts[1].kind = "reclaimed"
        /\ jobs[g].alerts[2].kind = "failed"
        /\ jobs[g].lastErr = ErrTimeout

\* C38: a success alert is emitted only after a status poll returned
\* Running that followed, in the same attempt, a start command that
\* returned without error; never in an attempt whose start command
\* errored or whose wait ran into the deadline.
C38_SuccessOnlyAfterRunning ==
    \A g \in Jobs :
        LET j == jobs[g]
        IN  AlertsOf(g, "started") # << >>
              => /\ Len(AlertsOf(g, "started")) = 1
                 /\ j.pc = "return"
                 /\ j.startRes \in {"ok", "IncorrectInstanceStatus"}
                 /\ j.startErrs < j.starts
                 /\ j.polls >= 1
                 /\ j.seen = "Running"
                 /\ j.waitRes = Nil
                 /\ j.alerts[Len(j.alerts)].kind = "started"

\* C38 witness: the first attempt's start errored, the second attempt's
\* start was accepted and its second poll returned Running.
C38_Witness ==
    \E g \in Jobs :
        /\ jobs[g].pc = "return"
        /\ jobs[g].startErrs = 1
        /\ jobs[g].starts = 2
        /\ jobs[g].polls = 2
        /\ jobs[g].seen = "Running"
        /\ Len(AlertsOf(g, "started")) = 1

\* C34: the cooldown check-then-record is atomic among checkers: of two
\* overlapping checkInstance runs for one instance at most one passes
\* canNotify and emits the reclaimed alert within one cooldown window, so a
\* run that has passed the test finds no record younger than the window.
C34_CooldownAtomic ==
    \A g \in Jobs :
        jobs[g].pc = "reclaimed"
            => LET id == jobs[g].inst.InstanceID
               IN  /\ \/ notifiedAt[id] = NoTime
                      \/ notifiedAt[id] > cfg.NotifyCooldown
                   /\ \A h \in Jobs \ {g} :
                         ~(/\ jobs[h].pc = "reclaimed"
                           /\ jobs[h].inst.InstanceID = id)

\* the instances the provider answered with in a discovery: region by
\* region in the listed order, the regions whose listing failed left out
RECURSIVE Listed(_, _, _, _)
Listed(world, regions, failed, n) ==
    IF n = 0 THEN << >>
    ELSE Listed(world, regions, failed, n - 1)
         \o (IF regions[n] \in failed THEN << >> ELSE world[regions[n]])

\* a DiscoverInstances call has returned
Returned == calc.op = "discovery" /\ calc.th["main"].pc = "idle" /\ calc.calls >= 1

\* C31: discovery supersedes: after a successful DiscoverInstances the
\* registry is exactly the list just discovered (what is no longer listed is
\* dropped, nothing is carried over), so two consecutive discoveries that
\* were answered the same list leave equal registries.
C31_Supersedes ==
    (Returned /\ calc.ret = Nil)
        => LET list == Listed(calc.world, calc.regions, calc.failed,
                              Len(calc.regions))
           IN  /\ instances = list
               /\ (calc.prevRet = Nil /\ calc.prevList = list)
                     => instances = calc.before

\* C31 witness: the second discovery no longer lists the instance the first
\* one found in us-west-1, and lists one in cn-hangzhou instead.
C31_Witness ==
    /\ Returned
    /\ calc.calls = 2
    /\ calc.ret = Nil
    /\ calc.prevRet = Nil
    /\ calc.failed = {}
    /\ calc.before = << SpotInstanceIn("us-west-1", "i-2") >>
    /\ instances = << SpotInstanceIn("cn-hangzhou", "i-1") >>

\* C39: when listing the regions fails DiscoverInstances returns an error
\* and the registry is unchanged; when listing the instances fails for some
\* regions only, the discovery succeeds and the registry is replaced by the
\* instances of the other regions, keeping none tracked for a failed region.
C39_DiscoveryFailure ==
    Returned
        => /\ calc.regions = << >> <=> calc.ret = ErrDiscover
           /\ calc.ret = ErrDiscover => instances = calc.before
           /\ calc.ret = Nil
                => /\ calc.failed \subseteq
                         {calc.regions[n] : n \in DOMAIN calc.regions}
                   /\ \A n \in DOMAIN instances :
                         /\ instances[n].RegionID \notin calc.failed
                         /\ instances[n] \in
                              {calc.world[r][1] :
                                  r \in {x \in DiscoveryRegions :
                                            calc.world[x] # << >>}}
                   /\ \A n \in DOMAIN calc.regions :
                         LET r == calc.regions[n]
                         IN  (r \notin calc.failed /\ calc.world[r] # << >>)
                               => \E m \in DOMAIN instances :
                                     instances[m] = calc.world[r][1]

\* C39 witness: us-west-1, whose instance was tracked, could not be listed
\* in the second discovery: the registry holds the cn-hangzhou instance only.
C39_Witness ==
    /\ Returned
    /\ calc.calls = 2
    /\ calc.ret = Nil
    /\ calc.failed = {"us-west-1"}
    /\ calc.world["us-west-1"] # << >>
    /\ \E n \in DOMAIN calc.before : calc.before[n].RegionID = "us-west-1"
    /\ instances = << SpotInstanceIn("cn-hangzhou", "i-1") >>

\* C35: the client cache is never read by one goroutine while another
\* writes it: no two goroutines are in getClient at once with one of them
\* inserting, whatever the interleaving of two Checks and a status report.
C35_NoCacheRace ==
    calc.op = "discovery"
        => /\ \A a, b \in Threads :
                 (a # b /\ calc.th[b].gc = "insert") => calc.th[a].gc = "none"
           /\ proc = "running"
                 => \A t \in Threads : calc.th[t].gc \in {"none", "lookup"}

\* C35 witness: the two Checks and the status report read the cache at once.
C35_Witness ==
    /\ calc.op = "discovery"
    /\ proc = "running"
    /\ \A t \in Routines : calc.th[t].gc = "lookup"
    /\ calc.th["check1"].region = calc.th["status"].region

\* the sum of the amounts of the items read that name instance id
AmountOf(id) ==
    SumOver([k \in ItemsOf(id) |-> calc.items[k].PretaxAmount], ItemsOf(id))

\* C32 as stated: HourlyCost is TotalAmount / RunningHours whenever
\* RunningHours > 0 and 0 when RunningHours is 0, TotalAmount being the sum
\* of the amounts of all the instance's items.
C32_Original ==
    (calc.op = "billing" /\ calc.done)
        => \A id \in DOMAIN calc.result.Instances :
              LET inst == calc.result.Instances[id]
              IN  /\ inst.TotalAmount = AmountOf(id)
                  /\ inst.HourlyCost =
                        IF inst.RunningHours.num > 0
                        THEN RatDiv(Rat(inst.TotalAmount, 1), inst.RunningHours)
                        ELSE Rat(0, 1)

\* C32 amended: HourlyCost is TotalAmount / RunningHours whenever
\* RunningHours > 0 and TotalAmount > 0, and 0 otherwise; TotalAmount is
\* the sum of the amounts of all the instance's items, whatever their unit.
C32_HourlyCost ==
    (calc.op = "billing" /\ calc.done)
        => \A id \in DOMAIN calc.result.Instances :
              LET inst == calc.result.Instances[id]
              IN  /\ inst.TotalAmount = AmountOf(id)
                  /\ inst.HourlyCost =
                        IF inst.RunningHours.num > 0 /\ inst.TotalAmount > 0
                        THEN RatDiv(Rat(inst.TotalAmount, 1), inst.RunningHours)
                        ELSE Rat(0, 1)

\* C32 witness: two items of 10 for one instance, one for 7200 s and one
\* in days: 20 over 2 hours, an hourly cost of 10.
C32_Witness ==
    /\ calc.op = "billing"
    /\ calc.done
    /\ Len(calc.items) = 2
    /\ \A k \in 1..2 : calc.items[k].InstanceID = "i-1"
    /\ calc.items[1].ServicePeriodUnit = UnitSeconds
    /\ calc.items[2].ServicePeriodUnit = UnitDays
    /\ calc.result.Instances["i-1"].TotalAmount = 20
    /\ calc.result.Instances["i-1"].RunningHours = Rat(2, 1)
    /\ calc.result.Instances["i-1"].HourlyCost = Rat(10, 1)

\* C33: items naming an instance that was not asked for contribute to
\* nothing (no instance summary, no amount, no running time); the summary's
\* TotalAmount is the sum of the instances' TotalAmount and its
\* TotalRunningHours the sum of the instances' deduplicated RunningHours.
C33_FilterAndTotals ==
    (calc.op = "billing" /\ calc.done)
        => LET r == calc.result
               asked == {k \in DOMAIN calc.items :
                            calc.items[k].InstanceID \in RequestedIds}
           IN  /\ DOMAIN r.Instances \subseteq RequestedIds
               /\ DOMAIN calc.instanceRunningSeconds \subseteq RequestedIds
               /\ r.TotalAmount =
                     SumOver([k \in asked |-> calc.items[k].PretaxAmount], asked)
               /\ r.TotalAmount =
                     SumOver([id \in DOMAIN r.Instances |->
                                 r.Instances[id].TotalAmount],
                             DOMAIN r.Instances)
               /\ r.TotalRunningHours =
                     RatSumOver([id \in DOMAIN r.Instances |->
                                    r.Instances[id].RunningHours],
                                DOMAIN r.Instances)

\* C33 witness: one item for each instance asked for and one, of 7200 s,
\* for an instance that was not: two summaries, 20 in total, 2 hours.
C33_Witness ==
    /\ calc.op = "billing"
    /\ calc.done
    /\ Len(calc.items) = 3
    /\ {calc.items[k].InstanceID : k \in 1..3} = BilledIds
    /\ \E k \in 1..3 :
          /\ calc.items[k].InstanceID = "i-9"
          /\ calc.items[k].ServicePeriod = <<"7", "2", "0", "0">>
          /\ calc.items[k].ServicePeriodUnit = UnitSeconds
    /\ DOMAIN calc.result.Instances = RequestedIds
    /\ calc.result.TotalAmount = 20
    /\ calc.result.TotalRunningHours = Rat(2, 1)

\* C40: the billing aggregation covers every raw item of the cycle for the
\* requested instances, whatever their number: the instance's TotalAmount
\* is the sum over all its items in the cycle, also when the cycle holds
\* more items than one provider page.
C40_CoversCycle ==
    (calc.op = "page" /\ calc.done /\ calc.ret = Nil)
        => /\ "i-1" \in DOMAIN calc.instanceBillings
           /\ calc.instanceBillings["i-1"].TotalAmount
                 = calc.cycle * CycleItem.PretaxAmount

====
